---- MODULE Spec2Model ----
(***************************************************************************)
(* Stage alt manager of blu-dev/stage-alts: the selection state machine    *)
(* (src/src/alts.rs, src/src/lua.rs) and the lookup patcher that rewrites  *)
(* the archive's file_hash_to_path_index table and the search section's    *)
(* path_to_index table.                                                    *)
(*                                                                         *)
(* A Hash40 of a path is modelled by the sequence of the path's            *)
(* components: join_path appends a component, so two hashes are equal      *)
(* exactly when the paths are.  Indices are 0-based as in the source.      *)
(***************************************************************************)
EXTENDS Integers, Sequences, FiniteSets, TLC

VARIABLES
    file_hash_to_path_index, \* archive table: file hash -> FilePathIdx
    path_to_index,           \* search table: path hash -> path-list-indices index
    filepath_backup,         \* StageAltManager::filepath_backup
    path_backup,             \* StageAltManager::path_backup
    selection,               \* StageAltManager::selection
    current_index,           \* StageAltManager::current_index
    current_alt,             \* StageAltManager::current_alt, <<>> or <<alt>>
    is_online,               \* StageAltManager::is_online
    status,                  \* "running", "panicked" (an unwrap failed), "hung"
    call,                    \* the last manager call: its inputs and the slot it resolved
    calls,                   \* ordinary advance_alt calls counted since construction / on_load
    live,                    \* the alt whose patches the patcher last applied and has not reverted
    strict,                  \* FALSE once an apply or revert broke the alternation
    hist,                    \* the last patcher calls made directly (SpecPatch)
    section,                 \* the search section the startup order fix rewrites
    lock,                    \* STAGE_ALT_MANAGER's RwLock: the writer and the readers holding it
    pc,                      \* the position of each thread that calls into the manager
    stage_alt_lookup,        \* STAGE_ALT_LOOKUP: None until the Lazy is forced
    CURRENT_STAGE_INDEX,     \* lib.rs static: cursor into INCOMING_ALTS
    INCOMING_RANDOM,         \* lib.rs static: the ordinal drawn for a random slot
    INCOMING_ALTS,           \* lua.rs static: the ordinal of each of the three slots
    loaded_directories,      \* directory path -> child_path_indices of its LoadedDirectory
    ref_counts,              \* file path index -> refc calls minus unrefc calls
    dir_infos,               \* the archive's directories: path, child folders, files
    panel                    \* PANEL_TO_HASH_LOOKUP2: the mutex holder and the map's keys

vars == << file_hash_to_path_index, path_to_index, filepath_backup, path_backup,
           selection, current_index, current_alt, is_online, status, call, calls,
           live, strict, hist, section, lock, pc, stage_alt_lookup, CURRENT_STAGE_INDEX,
           INCOMING_RANDOM, INCOMING_ALTS, loaded_directories, ref_counts, dir_infos,
           panel >>

\* the statics of lib.rs and lua.rs the content loader's hooks work on
loader == << stage_alt_lookup, CURRENT_STAGE_INDEX, INCOMING_RANDOM, INCOMING_ALTS,
             loaded_directories, ref_counts, dir_infos >>

-----------------------------------------------------------------------------
(* Bounds of the model *)

MaxSel == 2      \* largest count passed to set_stage_use_count
MaxCalls == 4    \* advance_alt calls counted before the counter saturates
\* the largest ordinal a query is asked about (the longest alt list has 4 alts)
MaxIndex == 5
NThreads == 2    \* threads that call into the manager at the same time

(* Program constants *)

NO_INDEX == 16777215     \* 0xFF_FFFF, the "no more siblings" sentinel
USIZE_MAX == 2147483647  \* usize::MAX (scaled to the checker's integer width)

-----------------------------------------------------------------------------
(* Option<T> *)

None == << >>
Some(x) == << x >>

(* Hash40 path construction *)

join_path(parent, child) == Append(parent, child)

Last(s) == s[Len(s)]
Front(s) == SubSeq(s, 1, Len(s) - 1)

-----------------------------------------------------------------------------
(* The index the manager is constructed over: one stage S with two variant *)
(* folders, the results stage with one.                                    *)

SN == << "stage", "S", "normal" >>
S1 == << "stage", "S", "normal_s01" >>
S2 == << "stage", "S", "normal_s02" >>
RN == << "stage", "resultstage", "normal" >>
R1 == << "stage", "resultstage", "normal_s01" >>

\* path_list_indices: child index ci (at position ci + 1) -> path-list index
FixturePathListIndices == << 12, 11, 10, 9, 8, 7, 6, 5, 4, 3, 2, 1, 0 >>

\* child index (into path_list_indices) of the path-list entry pi
Ci(pi) == CHOOSE ci \in 0 .. Len(FixturePathListIndices) - 1 :
              FixturePathListIndices[ci + 1] = pi

PathEntry(path, dir, next) ==
    [ parent |-> Front(path),
      path |-> path,
      file_name |-> Last(path),
      is_directory |-> dir,
      index |-> next ]

\* path_list, entry i at position i + 1; `index` is the next sibling's child index
FixturePathList == <<
    PathEntry(join_path(SN, "a"), FALSE, Ci(1)),                 \* 0
    PathEntry(join_path(SN, "model"), TRUE, Ci(2)),              \* 1
    PathEntry(join_path(SN, "b"), FALSE, Ci(3)),                 \* 2
    PathEntry(join_path(SN, "c"), FALSE, NO_INDEX),              \* 3
    PathEntry(join_path(join_path(SN, "model"), "m"), FALSE, NO_INDEX), \* 4
    PathEntry(join_path(S1, "b"), FALSE, Ci(6)),                 \* 5
    PathEntry(join_path(S1, "z"), FALSE, Ci(7)),                 \* 6
    PathEntry(join_path(S1, "a"), FALSE, Ci(8)),                 \* 7
    PathEntry(join_path(S1, "c"), FALSE, NO_INDEX),              \* 8
    PathEntry(join_path(S2, "a"), FALSE, Ci(10)),                \* 9
    PathEntry(join_path(S2, "b"), FALSE, NO_INDEX),              \* 10
    PathEntry(join_path(RN, "a"), FALSE, NO_INDEX),              \* 11
    PathEntry(join_path(R1, "a"), FALSE, NO_INDEX) >>            \* 12

NPaths == Len(FixturePathList)

\* The search section: folder hash -> first child index, the path-list-indices
\* table and the path list.
SearchSection ==
    [ folders |-> ( SN :> Ci(0) ) @@ ( join_path(SN, "model") :> Ci(4) ) @@
                  ( S1 :> Ci(5) ) @@ ( S2 :> Ci(9) ) @@ ( RN :> Ci(11) ) @@
                  ( R1 :> Ci(12) ),
      path_list_indices |-> [ ci \in 0 .. NPaths - 1 |-> FixturePathListIndices[ci + 1] ],
      path_list |-> [ pi \in 0 .. NPaths - 1 |-> FixturePathList[pi + 1] ] ]

FilePaths == { FixturePathList[i].path : i \in { j \in 1 .. NPaths : ~FixturePathList[j].is_directory } }

PathIndexOf(path) == CHOOSE pi \in 0 .. NPaths - 1 : SearchSection.path_list[pi].path = path

\* Variant files that are not registered: the patcher skips them.
NotInArchive == { join_path(S1, "b") }
NotInSearch == { join_path(S1, "c") }

\* The archive table at process start: FilePathIdx of every registered file.
InitialArchiveTable ==
    [ p \in FilePaths \ NotInArchive |-> 100 + PathIndexOf(p) ]

\* The search table at process start.
InitialSearchTable ==
    [ p \in { FixturePathList[i].path : i \in 1 .. NPaths } \ NotInSearch |-> Ci(PathIndexOf(p)) ]

-----------------------------------------------------------------------------
(* The catalog (alt_infos): index 0 of a stage's list is the vanilla alt.  *)

StageAlt(stage, ord, folders, nws, nig, bws, big) ==
    [ alt_folders |-> folders,
      ui_paths |-> [ k \in 0 .. 4 |-> << "ui", stage, ord, k >> ],
      is_normal_ws |-> nws, is_normal_ignore |-> nig,
      is_battle_ws |-> bws, is_battle_ignore |-> big ]

Catalog ==
    ( "S" :> << StageAlt("S", 0, SN :> SN, TRUE, FALSE, TRUE, FALSE),
                StageAlt("S", 1, SN :> S1, TRUE, FALSE, TRUE, FALSE),
                StageAlt("S", 2, SN :> S2, FALSE, FALSE, FALSE, FALSE) >> ) @@
    ( "resultstage" :>
             << StageAlt("resultstage", 0, RN :> RN, TRUE, FALSE, TRUE, FALSE),
                StageAlt("resultstage", 1, RN :> R1, TRUE, TRUE, TRUE, FALSE) >> ) @@
    ( "E" :> << >> ) @@
    ( "T" :> << StageAlt("T", 0, SN :> SN, TRUE, FALSE, TRUE, FALSE),
                StageAlt("T", 1, SN :> S1, FALSE, FALSE, TRUE, FALSE),
                StageAlt("T", 2, SN :> S2, TRUE, FALSE, TRUE, TRUE),
                StageAlt("T", 3, SN :> S1, TRUE, FALSE, FALSE, FALSE) >> )

\* alt_infos.get(&stage)
alt_infos_get(stage) == IF stage \in DOMAIN Catalog THEN Some(Catalog[stage]) ELSE None

\* alts_found.get(i) giving the last alt for an index past the end
alts_found_get_clamped(alts_found, i) ==
    IF alts_found = << >> \/ i < 0 THEN None
    ELSE IF i < Len(alts_found) THEN Some(alts_found[i + 1])
    ELSE Some(alts_found[Len(alts_found)])

\* alts_found.get(i)
alts_found_get(alts_found, i) ==
    IF i >= 0 /\ i < Len(alts_found) THEN Some(alts_found[i + 1]) ELSE None

\* alt_infos.get(&stage).and_then(|info| info.alts_found.get(i)).cloned()
catalog_alt(stage, i) ==
    IF alt_infos_get(stage) = None THEN None
    ELSE alts_found_get(alt_infos_get(stage)[1], i)

-----------------------------------------------------------------------------
(* search.rs: the walker *)

File(i) == [ index |-> i, kind |-> "File", children |-> << >> ]
Folder(i, ch) == [ index |-> i, kind |-> "Folder", children |-> ch ]

RECURSIVE walk_search_section(_, _, _)
RECURSIVE WalkLoop(_, _, _, _)

\* The loop of walk_search_section from child_index on; fuel bounds the chain.
WalkLoop(search, child_index, depth, fuel) ==
    IF child_index = NO_INDEX \/ fuel = 0 THEN << >>
    ELSE LET path_index == search.path_list_indices[child_index] IN
         IF path_index = NO_INDEX THEN << >>
         ELSE LET path == search.path_list[path_index]
                  entry == IF path.is_directory
                           THEN Folder(path_index,
                                       walk_search_section(search, path.path, depth - 1))
                           ELSE File(path_index)
              IN << entry >> \o WalkLoop(search, path.index, depth, fuel - 1)

\* walk_search_section that stops after the first child instead of following
\* the sibling links
walk_search_section_first_only(search, hash, depth) ==
    IF depth = 0 \/ hash \notin DOMAIN search.folders THEN << >>
    ELSE WalkLoop(search, search.folders[hash], depth, 1)

\* walk_search_section
walk_search_section(search, hash, depth) ==
    IF depth = 0 THEN << >>
    ELSE IF hash \notin DOMAIN search.folders THEN << >>
    ELSE WalkLoop(search, search.folders[hash], depth,
                  Cardinality(DOMAIN search.path_list_indices))

RECURSIVE flatten(_)
\* FlattenVec::flatten: the files of the tree, depth first
flatten(entries) ==
    IF entries = << >> THEN << >>
    ELSE LET e == Head(entries) IN
         ( IF e.kind = "File" THEN << e >> ELSE flatten(e.children) )
         \o flatten(Tail(entries))

-----------------------------------------------------------------------------
(* alts.rs: the lookup patcher.  A manager value m carries the two tables, *)
(* current_alt, the status and the patcher's bookkeeping; an operation     *)
(* returns the set of values it can end in (a HashMap is iterated in an    *)
(* arbitrary order, and an unwrap on a missing entry panics mid-loop).     *)

\* file_lookup of hack_lookups_for_alt / unhack_lookups_for_alt: the pairs
\* (base file, variant file) for the files directly under each base folder
file_lookup(search, folder_lookup) ==
    UNION { { << join_path(base, search.path_list[f.index].file_name),
                 join_path(folder_lookup[base], search.path_list[f.index].file_name) >> :
              f \in { e \in { flatten(walk_search_section(search, base, 1))[k] :
                              k \in 1 .. Len(flatten(walk_search_section(search, base, 1))) } :
                      e.kind = "File" } } :
            base \in DOMAIN folder_lookup }

LoopState(table, ok, written) == [ table |-> table, ok |-> ok, written |-> written ]

\* hack_arc_step exchanging the two slots instead of overwriting the base slot
hack_arc_step_swap(r, base, modded) ==
    IF modded \notin DOMAIN r.table THEN r
    ELSE IF base \notin DOMAIN r.table THEN [ r EXCEPT !.ok = FALSE ]
    ELSE LoopState([ r.table EXCEPT ![base] = r.table[modded], ![modded] = r.table[base] ],
                   TRUE, r.written \cup { base })

\* hack_arc_step that clears the base slot when the variant file is not
\* registered
hack_arc_step_clear(r, base, modded) ==
    IF base \notin DOMAIN r.table THEN [ r EXCEPT !.ok = FALSE ]
    ELSE LoopState([ r.table EXCEPT ![base] = IF modded \in DOMAIN r.table
                                              THEN r.table[modded] ELSE NO_INDEX ],
                   TRUE, r.written \cup { base })

\* one iteration of the archive loop of hack_lookups_for_alt
hack_arc_step(r, base, modded) ==
    IF modded \notin DOMAIN r.table THEN r
    ELSE IF base \notin DOMAIN r.table THEN [ r EXCEPT !.ok = FALSE ]
    ELSE LoopState([ r.table EXCEPT ![base] = r.table[modded] ], TRUE,
                   r.written \cup { base })

\* one iteration of the search loop of hack_lookups_for_alt
hack_search_step(r, base, modded) ==
    IF modded \notin DOMAIN r.table THEN r
    ELSE IF base \notin DOMAIN r.table THEN [ r EXCEPT !.ok = FALSE ]
    ELSE LoopState([ r.table EXCEPT ![base] = r.table[modded] ], TRUE,
                   r.written \cup { base })

\* unhack_arc_step that leaves the slot as it is
unhack_arc_step_keep(r, backup, base) ==
    IF base \notin DOMAIN backup \/ base \notin DOMAIN r.table
    THEN [ r EXCEPT !.ok = FALSE ]
    ELSE r

\* one iteration of the archive loop of unhack_lookups_for_alt
unhack_arc_step(r, backup, base) ==
    IF base \notin DOMAIN backup \/ base \notin DOMAIN r.table
    THEN [ r EXCEPT !.ok = FALSE ]
    ELSE LoopState([ r.table EXCEPT ![base] = backup[base] ], TRUE,
                   r.written \cup { base })

\* unhack_search_step that restores the value the slot already holds
unhack_search_step_current(r, backup, base) ==
    IF base \notin DOMAIN r.table \/ base \notin DOMAIN backup
    THEN [ r EXCEPT !.ok = FALSE ]
    ELSE LoopState([ r.table EXCEPT ![base] = r.table[base] ], TRUE,
                   r.written \cup { base })

\* one iteration of the search loop of unhack_lookups_for_alt
unhack_search_step(r, backup, base) ==
    IF base \notin DOMAIN r.table \/ base \notin DOMAIN backup
    THEN [ r EXCEPT !.ok = FALSE ]
    ELSE LoopState([ r.table EXCEPT ![base] = backup[base] ], TRUE,
                   r.written \cup { base })

RECURSIVE hack_arc_loop(_, _)
hack_arc_loop(r, todo) ==
    IF todo = { } \/ ~r.ok THEN { r }
    ELSE UNION { hack_arc_loop(hack_arc_step(r, e[1], e[2]), todo \ { e }) : e \in todo }

RECURSIVE hack_search_loop(_, _)
hack_search_loop(r, todo) ==
    IF todo = { } \/ ~r.ok THEN { r }
    ELSE UNION { hack_search_loop(hack_search_step(r, e[1], e[2]), todo \ { e }) : e \in todo }

RECURSIVE unhack_arc_loop(_, _, _)
unhack_arc_loop(r, backup, todo) ==
    IF todo = { } \/ ~r.ok THEN { r }
    ELSE UNION { unhack_arc_loop(unhack_arc_step(r, backup, e[1]), backup, todo \ { e }) :
                 e \in todo }

RECURSIVE unhack_search_loop(_, _, _)
unhack_search_loop(r, backup, todo) ==
    IF todo = { } \/ ~r.ok THEN { r }
    ELSE UNION { unhack_search_loop(unhack_search_step(r, backup, e[1]), backup, todo \ { e }) :
                 e \in todo }

\* StageAltManager::hack_lookups_for_alt (apply)
hack_lookups_for_alt(m) ==
    IF m.current_alt = None THEN { m }
    ELSE LET lookup == file_lookup(SearchSection, m.current_alt[1].alt_folders)
             began == [ m EXCEPT !.live = m.current_alt,
                                 !.strict = m.strict /\ m.live = None,
                                 !.log = Append(m.log, << "apply", m.current_alt >>) ]
         IN UNION {
              IF ~a.ok
              THEN { [ began EXCEPT !.arc = a.table, !.status = "panicked",
                                    !.arc_written = a.written, !.search_written = { } ] }
              ELSE { [ began EXCEPT !.arc = a.table, !.search = s.table,
                                    !.status = IF s.ok THEN m.status ELSE "panicked",
                                    !.arc_written = a.written,
                                    !.search_written = s.written ] :
                     s \in hack_search_loop(LoopState(m.search, TRUE, { }), lookup) } :
              a \in hack_arc_loop(LoopState(m.arc, TRUE, { }), lookup) }

\* unhack_lookups_for_alt without the search loop
unhack_lookups_for_alt_arc_only(m) ==
    IF m.current_alt = None THEN { m }
    ELSE LET lookup == file_lookup(SearchSection, m.current_alt[1].alt_folders)
             began == [ m EXCEPT !.live = None,
                                 !.strict = m.strict /\ m.live = m.current_alt,
                                 !.log = Append(m.log, << "revert", m.current_alt >>) ]
         IN { [ began EXCEPT !.arc = a.table,
                             !.status = IF a.ok THEN m.status ELSE "panicked" ] :
              a \in unhack_arc_loop(LoopState(m.arc, TRUE, { }), m.filepath_backup, lookup) }

\* StageAltManager::unhack_lookups_for_alt (revert)
unhack_lookups_for_alt(m) ==
    IF m.current_alt = None THEN { m }
    ELSE LET lookup == file_lookup(SearchSection, m.current_alt[1].alt_folders)
             began == [ m EXCEPT !.live = None,
                                 !.strict = m.strict /\ m.live = m.current_alt,
                                 !.log = Append(m.log, << "revert", m.current_alt >>) ]
         IN UNION {
              IF ~a.ok
              THEN { [ began EXCEPT !.arc = a.table, !.status = "panicked" ] }
              ELSE { [ began EXCEPT !.arc = a.table, !.search = s.table,
                                    !.status = IF s.ok THEN m.status ELSE "panicked" ] :
                     s \in unhack_search_loop(LoopState(m.search, TRUE, { }),
                                              m.path_backup, lookup) } :
              a \in unhack_arc_loop(LoopState(m.arc, TRUE, { }), m.filepath_backup, lookup) }

\* change_alt that applies the new alt without reverting the current one
change_alt_no_revert(m, new_alt) ==
    hack_lookups_for_alt([ m EXCEPT !.current_alt = new_alt ])

\* StageAltManager::change_alt
change_alt(m, new_alt) ==
    UNION { IF u.status # "running" THEN { u }
            ELSE hack_lookups_for_alt([ u EXCEPT !.current_alt = new_alt ]) :
            u \in unhack_lookups_for_alt(m) }

-----------------------------------------------------------------------------
(* alts.rs: Selection and the selection state machine *)

Regular(name, alt) == [ kind |-> "Regular", name |-> name, alt |-> alt ]
Random == [ kind |-> "Random", name |-> "", alt |-> 0 ]
Invalid == [ kind |-> "Invalid", name |-> "", alt |-> 0 ]

RESULT_STAGE == "resultstage"

\* The stage names a caller passes: S and the results stage have alts, E has a
\* catalog entry with an empty alt list, U has no catalog entry.
Stages == { "S", RESULT_STAGE, "E", "U" }

\* The selections the scripting layer registers.
Selections ==
    { Invalid, Random, Regular("S", 0), Regular("S", 3), Regular("U", 1) }

\* the wifi-safe test made for the battle form only
random_unsafe_battle_only(online, alt, is_battle) ==
    online /\ is_battle /\ ~alt.is_battle_ws

\* the wifi-safe test of get_random_alt for one alt and form
random_unsafe(online, alt, is_battle) ==
    online /\ ( IF is_battle THEN ~alt.is_battle_ws ELSE ~alt.is_normal_ws )

\* the ignore test of get_random_alt for one alt and form
random_ignored(alt, is_battle) ==
    IF is_battle THEN alt.is_battle_ignore ELSE alt.is_normal_ignore

\* StageAltManager::get_random_alt: the values the retry loop can return
\* (every index the draw rand % len can give that is not skipped); the empty
\* set when every draw is skipped, so that the loop never ends.
get_random_alt(online, stage_name, is_battle) ==
    IF alt_infos_get(stage_name) = None THEN { 0 }
    ELSE LET alts_found == alt_infos_get(stage_name)[1] IN
         IF alts_found = << >> THEN { 0 }
         ELSE { alt \in 0 .. Len(alts_found) - 1 :
                  /\ ~random_unsafe(online, alts_found[alt + 1], is_battle)
                  /\ ~random_ignored(alts_found[alt + 1], is_battle) }

\* The outcome of one query: it returns a value, it panics, or it never returns.
Returns(v) == [ outcome |-> "returns", value |-> v ]
Panics == [ outcome |-> "panics", value |-> 0 ]
Diverges == [ outcome |-> "diverges", value |-> 0 ]

\* the wifi-safe test of get_next_alt and get_prev_alt for one alt and form
is_skipped(online, alt, is_battle) ==
    online /\ ( ( is_battle /\ ~alt.is_battle_ws ) \/ ( ~is_battle /\ ~alt.is_normal_ws ) )

RECURSIVE get_next_alt(_, _, _, _)
RECURSIVE get_prev_alt_from(_, _, _, _, _)

\* get_next_alt without the wifi-safe test
get_next_alt_no_skip(online, stage_name, index, is_battle) ==
    IF alt_infos_get(stage_name) = None THEN { Returns(0) }
    ELSE IF alts_found_get(alt_infos_get(stage_name)[1], index + 1) # None
         THEN { Returns(index + 1) }
         ELSE { Returns(0) }

\* StageAltManager::get_next_alt: the outcomes of the call
get_next_alt(online, stage_name, index, is_battle) ==
    IF alt_infos_get(stage_name) = None THEN { Returns(0) }
    ELSE LET alt == alts_found_get(alt_infos_get(stage_name)[1], index + 1) IN
         IF alt # None
         THEN IF is_skipped(online, alt[1], is_battle)
              THEN get_next_alt(online, stage_name, index + 1, is_battle)
              ELSE { Returns(index + 1) }
         ELSE { Returns(0) }

\* StageAltManager::get_prev_alt, the recursion: seen holds the indices the
\* recursion was already entered with (the function is deterministic, so a
\* second entry with the same index never returns).  current_index - 1 at 0
\* panics where overflow is checked and wraps to usize::MAX otherwise, which
\* is no index of the list.
get_prev_alt_from(online, stage_name, index, is_battle, seen) ==
    IF alt_infos_get(stage_name) = None THEN { Returns(0) }
    ELSE IF index \in seen THEN { Diverges }
    ELSE LET alts_found == alt_infos_get(stage_name)[1]
             again == get_prev_alt_from(online, stage_name, Len(alts_found),
                                        is_battle, seen \cup { index })
         IN IF index = 0 THEN { Panics } \cup again
            ELSE LET alt == alts_found_get(alts_found, index - 1) IN
                 IF alt # None
                 THEN IF is_skipped(online, alt[1], is_battle)
                      THEN get_prev_alt_from(online, stage_name, index - 1,
                                             is_battle, seen \cup { index })
                      ELSE { Returns(index - 1) }
                 ELSE again

\* get_prev_alt without the wifi-safe test: the query answered as if offline
get_prev_alt_no_skip(online, stage_name, index, is_battle) ==
    get_prev_alt_from(FALSE, stage_name, index, is_battle, { })

\* StageAltManager::get_prev_alt: the outcomes of the call
get_prev_alt(online, stage_name, index, is_battle) ==
    get_prev_alt_from(online, stage_name, index, is_battle, { })

\* Hash40Ext::concat on names kept as sequences of fragments
concat(first, second) == first \o second

\* StageAltManager::is_dlc_stage
is_dlc_stage(stage_name) ==
    stage_name \in { "battlefield_s", "brave_altar", "buddy_spiral", "demon_dojo",
                     "dolly_stadium", "fe_shrine", "ff_cave", "jack_mementoes",
                     "pickel_world", "tantan_spring", "trail_castle", "xeno_alst" }

\* StageAltManager::vanilla_normal_ui_path
vanilla_normal_ui_path(stage_name) ==
    LET replace_folder == IF is_dlc_stage(stage_name) THEN "replace_patch" ELSE "replace"
        name == IF stage_name = "battlefield_s" THEN "battlefields"
                ELSE IF stage_name = "battlefield_l" THEN "battlefieldl"
                ELSE stage_name
        file_name == concat(concat(<< "stage_2_" >>, << name >>), << ".bntx" >>)
    IN join_path(join_path(join_path(join_path(<< "ui" >>, replace_folder), "stage"),
                           "stage_2"), file_name)

\* StageAltManager::vanilla_battle_ui_path
vanilla_battle_ui_path(stage_name) ==
    LET replace_folder == IF is_dlc_stage(stage_name) /\ stage_name # "battlefield_s"
                          THEN "replace_patch" ELSE "replace"
        name == IF stage_name = "battlefield_s" \/ stage_name = "battlefield_l"
                THEN "battlefield" ELSE stage_name
        file_name == concat(concat(<< "stage_4_" >>, << name >>), << ".bntx" >>)
    IN join_path(join_path(join_path(join_path(<< "ui" >>, replace_folder), "stage"),
                           "stage_4"), file_name)

\* StageAltManager::vanilla_end_ui_path
vanilla_end_ui_path(stage_name) ==
    LET replace_folder == IF is_dlc_stage(stage_name) /\ stage_name # "battlefield_s"
                          THEN "replace_patch" ELSE "replace"
        name == IF stage_name = "battlefield_s" \/ stage_name = "battlefield_l"
                THEN "battlefield" ELSE stage_name
        file_name == concat(concat(<< "stage_3_" >>, << name >>), << ".bntx" >>)
    IN join_path(join_path(join_path(join_path(<< "ui" >>, replace_folder), "stage"),
                           "stage_3"), file_name)

\* StageAltManager::get_normal_ui_path
get_normal_ui_path(stage_name, alt) ==
    IF alt = 0 THEN vanilla_normal_ui_path(stage_name)
    ELSE IF alt_infos_get(stage_name) = None THEN vanilla_normal_ui_path(stage_name)
    ELSE LET alts_found == alt_infos_get(stage_name)[1] IN
         IF alts_found = << >> THEN vanilla_normal_ui_path(stage_name)
         ELSE IF alts_found_get(alts_found, alt) # None
              THEN alts_found_get(alts_found, alt)[1].ui_paths[2]
              ELSE vanilla_normal_ui_path(stage_name)

\* get_battle_ui_path returning the slot of the end form
get_battle_ui_path_slot3(stage_name, alt) ==
    IF alt = 0 \/ catalog_alt(stage_name, alt) = None
    THEN vanilla_battle_ui_path(stage_name)
    ELSE catalog_alt(stage_name, alt)[1].ui_paths[3]

\* StageAltManager::get_battle_ui_path
get_battle_ui_path(stage_name, alt) ==
    IF alt = 0 THEN vanilla_battle_ui_path(stage_name)
    ELSE IF alt_infos_get(stage_name) = None THEN vanilla_battle_ui_path(stage_name)
    ELSE LET alts_found == alt_infos_get(stage_name)[1] IN
         IF alts_found = << >> THEN vanilla_battle_ui_path(stage_name)
         ELSE IF alts_found_get(alts_found, alt) # None
              THEN alts_found_get(alts_found, alt)[1].ui_paths[4]
              ELSE vanilla_battle_ui_path(stage_name)

\* StageAltManager::get_end_ui_path
get_end_ui_path(stage_name, alt) ==
    IF alt = 0 THEN vanilla_end_ui_path(stage_name)
    ELSE IF alt_infos_get(stage_name) = None THEN vanilla_end_ui_path(stage_name)
    ELSE LET alts_found == alt_infos_get(stage_name)[1] IN
         IF alts_found = << >> THEN vanilla_end_ui_path(stage_name)
         ELSE IF alts_found_get(alts_found, alt) # None
              THEN alts_found_get(alts_found, alt)[1].ui_paths[3]
              ELSE vanilla_end_ui_path(stage_name)

\* next_selection that starts the cursor like any other value (slot 1 first)
next_selection_no_sentinel(sel_list, index, incoming) ==
    LET from == IF index = USIZE_MAX THEN 0 ELSE index IN
    IF sel_list = << >> THEN [ index |-> index, sel |-> Random ]
    ELSE IF incoming = RESULT_STAGE THEN [ index |-> index, sel |-> Random ]
    ELSE [ index |-> ( from + 1 ) % Len(sel_list),
           sel |-> sel_list[( ( from + 1 ) % Len(sel_list) ) + 1] ]

\* next_selection without the results-stage test
next_selection_no_results(sel_list, index, incoming) ==
    IF sel_list = << >> THEN [ index |-> index, sel |-> Random ]
    ELSE IF index = USIZE_MAX THEN [ index |-> 0, sel |-> sel_list[0 + 1] ]
    ELSE [ index |-> ( index + 1 ) % Len(sel_list),
           sel |-> sel_list[( ( index + 1 ) % Len(sel_list) ) + 1] ]

\* next_selection moving the cursor also when the results stage forces Random
next_selection_consuming(sel_list, index, incoming) ==
    IF sel_list = << >> THEN [ index |-> index, sel |-> Random ]
    ELSE IF incoming = RESULT_STAGE
         THEN [ index |-> IF index = USIZE_MAX THEN 0 ELSE ( index + 1 ) % Len(sel_list),
                sel |-> Random ]
    ELSE IF index = USIZE_MAX THEN [ index |-> 0, sel |-> sel_list[0 + 1] ]
    ELSE [ index |-> ( index + 1 ) % Len(sel_list),
           sel |-> sel_list[( ( index + 1 ) % Len(sel_list) ) + 1] ]

\* next_selection stepping the cursor without the modulo
next_selection_no_wrap(sel_list, index, incoming) ==
    IF sel_list = << >> THEN [ index |-> index, sel |-> Random ]
    ELSE IF incoming = RESULT_STAGE THEN [ index |-> index, sel |-> Random ]
    ELSE IF index = USIZE_MAX THEN [ index |-> 0, sel |-> sel_list[0 + 1] ]
    ELSE [ index |-> index + 1,
           sel |-> IF index + 1 < Len(sel_list) THEN sel_list[index + 2] ELSE Invalid ]

\* advance_alt, first statement: the selection consumed and the cursor after it
next_selection(sel_list, index, incoming) ==
    IF sel_list = << >> THEN [ index |-> index, sel |-> Random ]
    ELSE IF incoming = RESULT_STAGE THEN [ index |-> index, sel |-> Random ]
    ELSE IF index = USIZE_MAX THEN [ index |-> 0, sel |-> sel_list[0 + 1] ]
    ELSE [ index |-> ( index + 1 ) % Len(sel_list),
           sel |-> sel_list[( ( index + 1 ) % Len(sel_list) ) + 1] ]

\* the Selection::Invalid arm only logging the error
resolve_invalid_log_only(m) == { m }

\* advance_alt, the Selection::Invalid arm
resolve_invalid(m) == change_alt(m, None)

\* advance_alt, the Selection::Random arm
resolve_random(m, online, incoming, is_battle) ==
    IF get_random_alt(online, incoming, is_battle) = { }
    THEN { [ m EXCEPT !.status = "hung" ] }
    ELSE UNION { IF alt_id = 0 THEN change_alt(m, None)
                 ELSE change_alt(m, catalog_alt(incoming, alt_id)) :
                 alt_id \in get_random_alt(online, incoming, is_battle) }

\* advance_alt, the Selection::Regular arm
resolve_regular(m, name, alt) ==
    IF alt = 0
    THEN UNION { IF z.status # "running" THEN { z }
                 ELSE change_alt(z, catalog_alt(name, alt)) :
                 z \in change_alt(m, None) }
    ELSE change_alt(m, catalog_alt(name, alt))

\* the match of advance_alt with the Regular arm looking the alt up in the
\* list of the incoming stage
resolve_by_incoming(m, sel, online, incoming, is_battle) ==
    IF sel.kind = "Invalid" THEN resolve_invalid(m)
    ELSE IF sel.kind = "Random" THEN resolve_random(m, online, incoming, is_battle)
    ELSE resolve_regular(m, incoming, sel.alt)

\* the match of advance_alt with the Regular arm dropping an alt that the
\* wifi-safe or the ignore test of the random draw would reject
resolve_filtered(m, sel, online, incoming, is_battle) ==
    IF sel.kind = "Invalid" THEN resolve_invalid(m)
    ELSE IF sel.kind = "Random" THEN resolve_random(m, online, incoming, is_battle)
    ELSE IF /\ catalog_alt(sel.name, sel.alt) # None
            /\ \/ random_unsafe(online, catalog_alt(sel.name, sel.alt)[1], is_battle)
               \/ random_ignored(catalog_alt(sel.name, sel.alt)[1], is_battle)
         THEN change_alt(m, None)
    ELSE resolve_regular(m, sel.name, sel.alt)

\* advance_alt, the match on the consumed selection
resolve(m, sel, online, incoming, is_battle) ==
    IF sel.kind = "Invalid" THEN resolve_invalid(m)
    ELSE IF sel.kind = "Random" THEN resolve_random(m, online, incoming, is_battle)
    ELSE resolve_regular(m, sel.name, sel.alt)

-----------------------------------------------------------------------------
(* The state machine *)

\* the manager value of the current state
Manager ==
    [ filepath_backup |-> filepath_backup,
      path_backup |-> path_backup,
      current_alt |-> current_alt,
      status |-> status,
      live |-> live,
      strict |-> strict,
      search |-> path_to_index,
      log |-> << >>,
      arc |-> file_hash_to_path_index,
      arc_written |-> { },
      search_written |-> { } ]

\* the next state holds the manager value m
Becomes(m) ==
    /\ file_hash_to_path_index' = m.arc
    /\ path_to_index' = m.search
    /\ current_alt' = m.current_alt
    /\ status' = m.status
    /\ live' = m.live
    /\ strict' = m.strict

Idle == [ log |-> << >>, incoming |-> "", sel |-> Invalid, op |-> "other" ]

\* calls counts the ordinary (slot consuming) advance_alt calls: 0 .. MaxCalls - 1
\* since construction with the list length fixed since the first of them,
\* MaxCalls when that is no longer tracked; -1 after on_load, -2 after the first
\* ordinary call that follows on_load.
Untracked == MaxCalls
AfterReset == 0 - 1
FirstAfterReset == 0 - 2

\* the threads that call into the manager
Threads == 1 .. NThreads

\* RwLock::new: no writer (0) and no reader holds the lock
Unlocked == [ writer |-> 0, readers |-> { } ]

\* Mutex::new(HashMap::new()): nobody (0) holds the mutex, the map is empty
PanelUnlocked == [ holder |-> 0, keys |-> { } ]

\* the statics as the process starts: the Lazy is not forced, the cursor and
\* the slots are 0, no directory is loaded
InitStatics ==
    /\ stage_alt_lookup = None
    /\ CURRENT_STAGE_INDEX = 0
    /\ INCOMING_RANDOM = 0
    /\ INCOMING_ALTS = << 0, 0, 0 >>
    /\ loaded_directories = << >>
    /\ ref_counts = << >>
    /\ panel = PanelUnlocked

\* STAGE_ALT_MANAGER: the manager as constructed
\* the fields of the manager other than the tables and their snapshots
InitFields ==
    /\ selection = << >>
    /\ current_index = USIZE_MAX
    /\ current_alt = None
    /\ is_online = FALSE
    /\ status = "running"
    /\ call = Idle
    /\ calls = 0
    /\ live = None
    /\ strict = TRUE
    /\ hist = << >>
    /\ lock = Unlocked
    /\ pc = [ t \in Threads |-> "idle" ]
    /\ InitStatics

\* the snapshots are copies of the tables as they are at construction
InitManager ==
    /\ file_hash_to_path_index = InitialArchiveTable
    /\ dir_infos = << >>
    /\ path_to_index = InitialSearchTable
    /\ filepath_backup = InitialArchiveTable
    /\ path_backup = InitialSearchTable
    /\ InitFields

\* the manager over the search section of the loaded archive
Init == InitManager /\ section = SearchSection

\* the list holds a selection other than Invalid
HoldsChoice(sel_list) == \E i \in 1 .. Len(sel_list) : sel_list[i] # Invalid

\* set_stage_use_count as Vec::resize would do it: the old entries are kept
set_stage_use_count_resize(count) ==
    /\ status = "running"
    /\ selection' = [ i \in 1 .. count |->
                        IF i <= Len(selection) THEN selection[i] ELSE Invalid ]
    /\ call' = [ op |-> "set_stage_use_count", held |-> HoldsChoice(selection) ]
    /\ calls' = IF calls = 0 \/ calls = AfterReset THEN calls ELSE Untracked
    /\ UNCHANGED << loader, panel, section, lock, pc,
                    file_hash_to_path_index, path_to_index, filepath_backup, path_backup,
                    current_index, current_alt, is_online, status, live, strict, hist >>

\* StageAltManager::set_stage_use_count (lua set_stage_use_num)
set_stage_use_count(count) ==
    /\ status = "running"
    /\ selection' = [ i \in 1 .. count |-> Invalid ]
    /\ call' = [ op |-> "set_stage_use_count", held |-> HoldsChoice(selection) ]
    /\ calls' = IF calls = 0 \/ calls = AfterReset THEN calls ELSE Untracked
    /\ UNCHANGED << loader, panel, section, lock, pc,
                    file_hash_to_path_index, path_to_index, filepath_backup, path_backup,
                    current_index, current_alt, is_online, status, live, strict, hist >>

\* set_stage_selection writing the last slot when the index is past the end
set_stage_selection_clamped(index, sel) ==
    /\ status = "running"
    /\ selection' = IF selection = << >> THEN selection
                    ELSE IF index >= Len(selection)
                         THEN [ selection EXCEPT ![Len(selection)] = sel ]
                         ELSE [ selection EXCEPT ![index + 1] = sel ]
    /\ call' = [ op |-> "set_stage_selection", ignored |-> index >= Len(selection) ]
    /\ UNCHANGED << loader, panel, section, lock, pc,
                    file_hash_to_path_index, path_to_index, filepath_backup, path_backup,
                    current_index, current_alt, is_online, status, calls, live, strict,
                    hist >>

\* StageAltManager::set_stage_selection (lua register_alt)
set_stage_selection(index, sel) ==
    /\ status = "running"
    /\ selection' = IF index >= Len(selection) THEN selection
                    ELSE [ selection EXCEPT ![index + 1] = sel ]
    /\ call' = [ op |-> "set_stage_selection", ignored |-> index >= Len(selection) ]
    /\ UNCHANGED << loader, panel, section, lock, pc,
                    file_hash_to_path_index, path_to_index, filepath_backup, path_backup,
                    current_index, current_alt, is_online, status, calls, live, strict,
                    hist >>

\* StageAltManager::advance_alt
advance_alt(incoming, is_battle) ==
    /\ status = "running"
    /\ LET next == next_selection(selection, current_index, incoming)
           ordinary == selection # << >> /\ incoming # RESULT_STAGE
       IN /\ current_index' = next.index
          /\ \E m \in resolve(Manager, next.sel, is_online, incoming, is_battle) :
                /\ Becomes(m)
                /\ call' = [ log |-> m.log,
                             incoming |-> incoming,
                             sel |-> next.sel,
                             op |-> "advance_alt" ]
          /\ calls' = IF ~ordinary THEN calls
                      ELSE IF calls = AfterReset THEN FirstAfterReset
                      ELSE IF calls = FirstAfterReset THEN Untracked
                      ELSE IF calls + 1 >= MaxCalls THEN Untracked
                      ELSE calls + 1
    /\ UNCHANGED << loader, panel, section, lock, pc,
                    filepath_backup, path_backup, selection, is_online, hist >>

\* lua on_load
on_load ==
    /\ status = "running"
    /\ current_index' = 0
    /\ call' = Idle
    /\ calls' = AfterReset
    /\ UNCHANGED << loader, panel, section, lock, pc,
                    file_hash_to_path_index, path_to_index, filepath_backup, path_backup,
                    selection, current_alt, is_online, status, live, strict, hist >>

Next ==
    \/ \E count \in 0 .. MaxSel : set_stage_use_count(count)
    \/ \E index \in 0 .. MaxSel, sel \in Selections : set_stage_selection(index, sel)
    \/ \E incoming \in Stages, is_battle \in BOOLEAN : advance_alt(incoming, is_battle)
    \/ on_load

Spec == Init /\ [][Next]_vars

-----------------------------------------------------------------------------
(* The patcher called directly: current_alt is a public field and          *)
(* hack_lookups_for_alt / unhack_lookups_for_alt are public methods.       *)

AllAlts == UNION { { Catalog[s][i] : i \in 1 .. Len(Catalog[s]) } : s \in DOMAIN Catalog }

\* the last two patcher calls, the older first
Remember(h, entry) == IF Len(h) < 2 THEN Append(h, entry) ELSE << h[2], entry >>

\* mgr.current_alt = alt
patch_set_alt(alt) ==
    /\ status = "running"
    /\ current_alt' = alt
    /\ hist' = << >>
    /\ UNCHANGED << loader, panel, section, lock, pc,
                    file_hash_to_path_index, path_to_index, filepath_backup, path_backup,
                    selection, current_index, is_online, status, call, calls, live, strict >>

\* mgr.hack_lookups_for_alt()
patch_hack ==
    /\ status = "running"
    /\ \E m \in hack_lookups_for_alt(Manager) :
          /\ Becomes(m)
          /\ hist' = Remember(hist, [ arc_written |-> m.arc_written,
                                      search_written |-> m.search_written,
                                      alt |-> current_alt,
                                      op |-> "hack",
                                      arc_before |-> file_hash_to_path_index,
                                      search_before |-> path_to_index ])
    /\ UNCHANGED << loader, panel, section, lock, pc,
                    filepath_backup, path_backup, selection, current_index, is_online,
                    call, calls >>

\* mgr.unhack_lookups_for_alt()
patch_unhack ==
    /\ status = "running"
    /\ \E m \in unhack_lookups_for_alt(Manager) :
          /\ Becomes(m)
          /\ hist' = Remember(hist, [ arc_written |-> { },
                                      search_written |-> { },
                                      alt |-> current_alt,
                                      op |-> "unhack",
                                      arc_before |-> file_hash_to_path_index,
                                      search_before |-> path_to_index ])
    /\ UNCHANGED << loader, panel, section, lock, pc,
                    filepath_backup, path_backup, selection, current_index, is_online,
                    call, calls >>

NextPatch ==
    \/ \E alt \in { None } \cup { Some(a) : a \in AllAlts } : patch_set_alt(alt)
    \/ patch_hack
    \/ patch_unhack

SpecPatch == Init /\ [][NextPatch]_vars

-----------------------------------------------------------------------------
(* The ordinal queries (lua get_next_alt / get_prev_alt, and get_random_alt *)
(* as advance_alt calls it) on the manager as constructed, with is_online  *)
(* set either way: is_online is a public field.                            *)

\* the stage names of the queries: T has alts that are unsafe in one form only
QueryStages == Stages \cup { "T" }

\* no get_next_alt call came just before with this call's index as its result
NoPrior == 0 - 1

\* mgr.is_online = flag
set_online(flag) ==
    /\ status = "running"
    /\ is_online' = flag
    /\ call' = [ op |-> "set_online" ]
    /\ UNCHANGED << loader, panel, section, lock, pc,
                    file_hash_to_path_index, path_to_index, filepath_backup, path_backup,
                    selection, current_index, current_alt, status, calls, live, strict,
                    hist >>

\* the state a query leaves: only the record of the call changes
Queried(record) ==
    /\ status = "running"
    /\ call' = record
    /\ UNCHANGED << loader, panel, section, lock, pc,
                    file_hash_to_path_index, path_to_index, filepath_backup, path_backup,
                    selection, current_index, current_alt, is_online, status, calls, live,
                    strict, hist >>

\* lua get_next_alt: mgr.get_next_alt(stage_hash, alt_no, stage_form != 0)
query_next_alt(stage_name, index, is_battle) ==
    \E r \in get_next_alt(is_online, stage_name, index, is_battle) :
        Queried([ index |-> index,
                  stage |-> stage_name,
                  online |-> is_online,
                  is_battle |-> is_battle,
                  op |-> "get_next_alt",
                  result |-> r ])

\* lua get_prev_alt: mgr.get_prev_alt(stage_hash, alt_no, stage_form != 0)
query_prev_alt(stage_name, index, is_battle) ==
    \E r \in get_prev_alt(is_online, stage_name, index, is_battle) :
        Queried([ index |-> index,
                  stage |-> stage_name,
                  online |-> is_online,
                  is_battle |-> is_battle,
                  op |-> "get_prev_alt",
                  result |-> r,
                  prior |-> IF /\ call.op = "get_next_alt"
                               /\ call.stage = stage_name
                               /\ call.is_battle = is_battle
                               /\ call.result = Returns(index)
                            THEN call.index ELSE NoPrior ])

\* self.get_random_alt(incoming, is_battle)
query_random_alt(stage_name, is_battle) ==
    \E r \in ( IF get_random_alt(is_online, stage_name, is_battle) = { }
                THEN { Diverges }
                ELSE { Returns(v) : v \in get_random_alt(is_online, stage_name, is_battle) } ) :
        Queried([ stage |-> stage_name,
                  online |-> is_online,
                  is_battle |-> is_battle,
                  op |-> "get_random_alt",
                  result |-> r ])

\* the stage names of the UI path queries: a DLC stage and the two aliased names too
UiStages == QueryStages \cup { "battlefield_s", "battlefield_l", "brave_altar" }

\* mgr.get_normal_ui_path(stage_hash, alt)
query_normal_ui_path(stage_name, alt) ==
    Queried([ stage |-> stage_name,
              alt |-> alt,
              op |-> "get_normal_ui_path",
              result |-> get_normal_ui_path(stage_name, alt) ])

\* mgr.get_battle_ui_path(stage_hash, alt)
query_battle_ui_path(stage_name, alt) ==
    Queried([ stage |-> stage_name,
              alt |-> alt,
              op |-> "get_battle_ui_path",
              result |-> get_battle_ui_path(stage_name, alt) ])

\* mgr.get_end_ui_path(stage_hash, alt)
query_end_ui_path(stage_name, alt) ==
    Queried([ stage |-> stage_name,
              alt |-> alt,
              op |-> "get_end_ui_path",
              result |-> get_end_ui_path(stage_name, alt) ])

NextQuery ==
    \/ \E stage_name \in UiStages, alt \in 0 .. MaxIndex :
          query_normal_ui_path(stage_name, alt)
    \/ \E stage_name \in UiStages, alt \in 0 .. MaxIndex :
          query_battle_ui_path(stage_name, alt)
    \/ \E stage_name \in UiStages, alt \in 0 .. MaxIndex :
          query_end_ui_path(stage_name, alt)
    \/ \E flag \in BOOLEAN : set_online(flag)
    \/ \E stage_name \in QueryStages, index \in 0 .. MaxIndex, is_battle \in BOOLEAN :
          query_next_alt(stage_name, index, is_battle)
    \/ \E stage_name \in QueryStages, index \in 0 .. MaxIndex, is_battle \in BOOLEAN :
          query_prev_alt(stage_name, index, is_battle)
    \/ \E stage_name \in QueryStages, is_battle \in BOOLEAN :
          query_random_alt(stage_name, is_battle)

SpecQuery == Init /\ [][NextQuery]_vars

-----------------------------------------------------------------------------
(* search.rs: the walker and file_order_fix on a search section of their   *)
(* own: a base folder BN and a variant folder B1 that holds the base's     *)
(* children in another order, one file of its own and a matched subfolder. *)

BS == << "stage", "B" >>
BN == << "stage", "B", "normal" >>
B1 == << "stage", "B", "normal_s01" >>
B2 == << "stage", "B", "normal_s02" >>

\* the path_list_indices tables the section is built over: the identity and
\* the reversal
IndexTables ==
    { << 0, 1, 2, 3, 4, 5, 6, 7, 8, 9, 10, 11, 12 >>,
      << 12, 11, 10, 9, 8, 7, 6, 5, 4, 3, 2, 1, 0 >> }

\* child index (into the table t) of the path-list entry pi
CiIn(t, pi) == CHOOSE ci \in 0 .. Len(t) - 1 : t[ci + 1] = pi

OrderPathList(t) == <<
    PathEntry(BN, TRUE, CiIn(t, 1)),                                \* 0
    PathEntry(B1, TRUE, NO_INDEX),                                  \* 1
    PathEntry(join_path(BN, "x"), FALSE, CiIn(t, 3)),               \* 2
    PathEntry(join_path(BN, "sub"), TRUE, CiIn(t, 4)),              \* 3
    PathEntry(join_path(BN, "y"), FALSE, NO_INDEX),                 \* 4
    PathEntry(join_path(join_path(BN, "sub"), "p"), FALSE, CiIn(t, 6)), \* 5
    PathEntry(join_path(join_path(BN, "sub"), "q"), FALSE, NO_INDEX),   \* 6
    PathEntry(join_path(B1, "y"), FALSE, CiIn(t, 8)),               \* 7
    PathEntry(join_path(B1, "w"), FALSE, CiIn(t, 9)),               \* 8
    PathEntry(join_path(B1, "sub"), TRUE, CiIn(t, 10)),             \* 9
    PathEntry(join_path(B1, "x"), FALSE, NO_INDEX),                 \* 10
    PathEntry(join_path(join_path(B1, "sub"), "q"), FALSE, CiIn(t, 12)), \* 11
    PathEntry(join_path(join_path(B1, "sub"), "p"), FALSE, NO_INDEX) >>  \* 12

\* The search section over the table t; path_to_index maps a path hash to
\* its index into path_list_indices.
OrderSection(t) ==
    [ path_to_index |-> [ p \in { OrderPathList(t)[i].path : i \in 1 .. Len(t) } |->
                          CiIn(t, CHOOSE pi \in 0 .. Len(t) - 1 :
                                      OrderPathList(t)[pi + 1].path = p) ],
      folders |-> ( BS :> CiIn(t, 0) ) @@ ( BN :> CiIn(t, 2) ) @@
                  ( join_path(BN, "sub") :> CiIn(t, 5) ) @@ ( B1 :> CiIn(t, 7) ) @@
                  ( join_path(B1, "sub") :> CiIn(t, 11) ),
      path_list_indices |-> [ ci \in 0 .. Len(t) - 1 |-> t[ci + 1] ],
      path_list |-> [ pi \in 0 .. Len(t) - 1 |-> OrderPathList(t)[pi + 1] ] ]

RECURSIVE walk_hangs(_, _, _, _)
RECURSIVE ChainHangs(_, _, _, _, _)

\* The loop of walk_search_section never reaches the sentinel: the sibling
\* chain is longer than the path list, or a folder is nested in itself.
ChainHangs(search, child_index, depth, levels, fuel) ==
    IF child_index = NO_INDEX THEN FALSE
    ELSE IF fuel = 0 THEN TRUE
    ELSE LET path_index == search.path_list_indices[child_index] IN
         IF path_index = NO_INDEX THEN FALSE
         ELSE LET path == search.path_list[path_index] IN
              \/ ChainHangs(search, path.index, depth, levels, fuel - 1)
              \/ /\ path.is_directory
                 /\ walk_hangs(search, path.path, depth - 1, levels - 1)

\* walk_search_section(search, hash, depth) does not return
walk_hangs(search, hash, depth, levels) ==
    IF depth = 0 \/ hash \notin DOMAIN search.folders THEN FALSE
    ELSE IF levels = 0 THEN TRUE
    ELSE ChainHangs(search, search.folders[hash], depth, levels,
                    Cardinality(DOMAIN search.path_list_indices))

RECURSIVE DirectChildLoop(_, _, _, _)
\* The loop of get_direct_child from child_index on
DirectChildLoop(search, child_index, child, fuel) ==
    IF child_index = NO_INDEX THEN Returns(None)
    ELSE IF fuel = 0 THEN Diverges
    ELSE LET path_index == search.path_list_indices[child_index] IN
         IF path_index = NO_INDEX THEN Returns(None)
         ELSE LET path == search.path_list[path_index] IN
              IF path.file_name = child THEN Returns(Some(path_index))
              ELSE DirectChildLoop(search, path.index, child, fuel - 1)

\* get_direct_child
get_direct_child(search, index, child) ==
    IF index \notin DOMAIN search.path_list THEN Returns(None)
    ELSE LET parent == search.path_list[index] IN
         IF parent.path \notin DOMAIN search.folders THEN Returns(None)
         ELSE DirectChildLoop(search, search.folders[parent.path], child,
                              Cardinality(DOMAIN search.path_list_indices))

\* what file_order_fix ends in: the section it leaves, or no return
Fixed(search) == [ search |-> search, hung |-> FALSE ]
Hung(search) == [ search |-> search, hung |-> TRUE ]

RECURSIVE Relink(_, _, _)
\* for x in 1..ordered_children.len(): link entry x - 1 to entry x
Relink(path_list, ordered_children, x) ==
    IF x >= Len(ordered_children) THEN path_list
    ELSE Relink([ path_list EXCEPT ![ordered_children[x]].index = ordered_children[x + 1] ],
                ordered_children, x + 1)

RECURSIVE AppendRest(_, _)
\* push the entries of the destination that ordered_children does not contain
AppendRest(ordered_children, dst_entries) ==
    IF dst_entries = << >> THEN ordered_children
    ELSE IF \E k \in 1 .. Len(ordered_children) :
                ordered_children[k] = Head(dst_entries).index
         THEN AppendRest(ordered_children, Tail(dst_entries))
         ELSE AppendRest(Append(ordered_children, Head(dst_entries).index),
                         Tail(dst_entries))

\* the tail of file_order_fix: rebuild the sibling chain of dst
relink_children(search, dst, ordered_children) ==
    IF dst \notin DOMAIN search.folders THEN search
    ELSE IF ordered_children = << >>
    THEN [ search EXCEPT !.folders[dst] = NO_INDEX ]
    ELSE [ search EXCEPT
             !.folders[dst] = ordered_children[1],
             !.path_list = [ Relink(search.path_list, ordered_children, 1)
                             EXCEPT ![Last(ordered_children)].index = NO_INDEX ] ]

RECURSIVE FixFrom(_, _, _, _)
RECURSIVE OrderLoop(_, _, _, _, _)

\* The loop of file_order_fix over source_entries: the matched children of
\* dst in the order of src, every matched subfolder fixed on the way
OrderLoop(search, source_entries, dst_index, ordered_children, levels) ==
    IF source_entries = << >>
    THEN [ search |-> search, hung |-> FALSE, ordered_children |-> ordered_children ]
    ELSE LET src_child_path == search.path_list[Head(source_entries).index]
             found == get_direct_child(search, dst_index, src_child_path.file_name)
         IN IF found = Diverges
            THEN [ search |-> search, hung |-> TRUE, ordered_children |-> ordered_children ]
            ELSE IF found.value = None
            THEN OrderLoop(search, Tail(source_entries), dst_index, ordered_children,
                           levels)
            ELSE LET dst_child == found.value[1]
                     dst_child_path == search.path_list[dst_child]
                     inner == IF dst_child_path.is_directory
                              THEN FixFrom(search, src_child_path.path,
                                           dst_child_path.path, levels - 1)
                              ELSE Fixed(search)
                 IN IF inner.hung
                    THEN [ search |-> inner.search,
                           hung |-> TRUE,
                           ordered_children |-> ordered_children ]
                    ELSE OrderLoop(inner.search, Tail(source_entries), dst_index,
                                   Append(ordered_children, dst_child), levels)

\* The body of file_order_fix, `levels` calls deep at most: a nest of calls
\* deeper than the folders of the section never unwinds.
FixFrom(search, src, dst, levels) ==
    IF levels = 0 THEN Hung(search)
    ELSE IF dst \notin DOMAIN search.path_to_index THEN Fixed(search)
    ELSE LET dst_index == search.path_list_indices[search.path_to_index[dst]] IN
         IF ~search.path_list[dst_index].is_directory THEN Fixed(search)
         ELSE IF walk_hangs(search, src, 1, 1) THEN Hung(search)
         ELSE LET source_entries == walk_search_section(search, src, 1) IN
              IF source_entries = << >> THEN Fixed(search)
              ELSE LET r == OrderLoop(search, source_entries, dst_index, << >>, levels) IN
                   IF r.hung THEN Hung(r.search)
                   ELSE IF walk_hangs(r.search, dst, 1, 1) THEN Hung(r.search)
                   ELSE Fixed(relink_children(r.search, dst,
                                  AppendRest(r.ordered_children,
                                             walk_search_section(r.search, dst, 1))))

\* file_order_fix
file_order_fix(search, src, dst) ==
    FixFrom(search, src, dst, Cardinality(DOMAIN search.folders) + 1)

MaxDepth == 3    \* the largest depth a walk is asked for
MaxFixes == 3    \* file_order_fix calls made on one section

\* the folder hashes the walker is called with: the folders of the section,
\* a file and a folder that does not exist
WalkHashes == { BS, BN, B1, join_path(BN, "sub"), join_path(B1, "sub"),
                join_path(BN, "x"), B2 }

InitSearch == InitManager /\ section \in { OrderSection(t) : t \in IndexTables }

\* walk_search_section(search, hash, depth)
walk(hash, depth) ==
    /\ status = "running"
    /\ IF walk_hangs(section, hash, depth, Cardinality(DOMAIN section.folders) + 1)
       THEN /\ status' = "hung"
            /\ call' = [ depth |-> depth,
                         hash |-> hash,
                         op |-> "walk_search_section",
                         result |-> Diverges ]
       ELSE /\ status' = status
            /\ call' = [ depth |-> depth,
                         hash |-> hash,
                         op |-> "walk_search_section",
                         result |-> Returns(walk_search_section(section, hash, depth)) ]
    /\ UNCHANGED << loader, panel, section, lock, pc,
                    file_hash_to_path_index, path_to_index, filepath_backup, path_backup,
                    selection, current_index, current_alt, is_online, calls, live,
                    strict, hist >>

\* The (src, dst) pairs file_order_fix is called with: base and variant,
\* their subfolders, a variant that does not exist, a base that does not
\* exist and a destination that is a file
OrderPairs ==
    { << BN, B1 >>, << join_path(BN, "sub"), join_path(B1, "sub") >>,
      << BN, B2 >>, << B2, B1 >>, << BN, join_path(B1, "w") >> }

\* file_order_fix(search, src, dst)
order_fix(src, dst) ==
    /\ status = "running"
    /\ calls < MaxFixes
    /\ calls' = calls + 1
    /\ LET r == file_order_fix(section, src, dst) IN
         /\ section' = r.search
         /\ status' = IF r.hung THEN "hung" ELSE status
         /\ call' = [ op |-> "file_order_fix",
                      hung |-> r.hung,
                      dst |-> dst,
                      src |-> src,
                      before |-> section ]
    /\ UNCHANGED << loader, panel, lock, pc,
                    file_hash_to_path_index, path_to_index, filepath_backup, path_backup,
                    selection, current_index, current_alt, is_online, live,
                    strict, hist >>

NextSearch ==
    \/ \E hash \in WalkHashes, depth \in (0 - 1) .. MaxDepth : walk(hash, depth)
    \/ \E pair \in OrderPairs : order_fix(pair[1], pair[2])

SpecSearch == InitSearch /\ [][NextSearch]_vars

-----------------------------------------------------------------------------
(* alts.rs get() / get_mut(): the manager behind its RwLock, called from    *)
(* several threads.  A thread takes the shared lock for a query and the     *)
(* exclusive lock for a mutator; change_alt is taken in its two steps, the  *)
(* revert of the current alt and the apply of the new one.                  *)

\* the alts a mutator changes to
LockAlts == { None, Some(Catalog["S"][2]), Some(Catalog["S"][3]) }

\* get(): STAGE_ALT_MANAGER.read() that does not wait for the writer
acquire_read_no_wait(t) ==
    /\ status = "running"
    /\ pc[t] = "idle"
    /\ lock' = [ lock EXCEPT !.readers = lock.readers \cup { t } ]
    /\ pc' = [ pc EXCEPT ![t] = "reading" ]
    /\ UNCHANGED << loader, panel, section,
                    file_hash_to_path_index, path_to_index, filepath_backup, path_backup,
                    selection, current_index, current_alt, is_online, status, call, calls,
                    live, strict, hist >>

\* get(): STAGE_ALT_MANAGER.read()
acquire_read(t) ==
    /\ status = "running"
    /\ pc[t] = "idle"
    /\ lock.writer = 0
    /\ lock' = [ lock EXCEPT !.readers = lock.readers \cup { t } ]
    /\ pc' = [ pc EXCEPT ![t] = "reading" ]
    /\ UNCHANGED << loader, panel, section,
                    file_hash_to_path_index, path_to_index, filepath_backup, path_backup,
                    selection, current_index, current_alt, is_online, status, call, calls,
                    live, strict, hist >>

\* lua get_next_alt under the read guard: mgr.get_next_alt(stage, alt, is_battle)
locked_query(t, stage_name, index) ==
    /\ status = "running"
    /\ pc[t] = "reading"
    /\ \E outcome \in get_next_alt(is_online, stage_name, index, FALSE) :
          call' = [ live |-> live,
                    alt |-> current_alt,
                    op |-> "locked_query",
                    result |-> outcome,
                    thread |-> t,
                    writers |-> { u \in Threads : pc[u] \in { "writing", "reverted",
                                                               "written" } } ]
    /\ pc' = [ pc EXCEPT ![t] = "read" ]
    /\ UNCHANGED << loader, panel, section, lock,
                    file_hash_to_path_index, path_to_index, filepath_backup, path_backup,
                    selection, current_index, current_alt, is_online, status, calls,
                    live, strict, hist >>

\* the read guard is dropped
release_read(t) ==
    /\ status = "running"
    /\ pc[t] = "read"
    /\ lock' = [ lock EXCEPT !.readers = lock.readers \ { t } ]
    /\ pc' = [ pc EXCEPT ![t] = "idle" ]
    /\ UNCHANGED << loader, panel, section,
                    file_hash_to_path_index, path_to_index, filepath_backup, path_backup,
                    selection, current_index, current_alt, is_online, status, call, calls,
                    live, strict, hist >>

\* get_mut(): STAGE_ALT_MANAGER.write()
acquire_write(t) ==
    /\ status = "running"
    /\ pc[t] = "idle"
    /\ lock.writer = 0 /\ lock.readers = { }
    /\ lock' = [ lock EXCEPT !.writer = t ]
    /\ pc' = [ pc EXCEPT ![t] = "writing" ]
    /\ UNCHANGED << loader, panel, section,
                    file_hash_to_path_index, path_to_index, filepath_backup, path_backup,
                    selection, current_index, current_alt, is_online, status, call, calls,
                    live, strict, hist >>

\* change_alt, first step: self.unhack_lookups_for_alt()
write_revert(t) ==
    /\ status = "running"
    /\ pc[t] = "writing"
    /\ \E m \in unhack_lookups_for_alt(Manager) : Becomes(m)
    /\ pc' = [ pc EXCEPT ![t] = "reverted" ]
    /\ UNCHANGED << loader, panel, section, lock,
                    filepath_backup, path_backup, selection, current_index, is_online,
                    call, calls, hist >>

\* change_alt, second step: self.current_alt = new_alt; self.hack_lookups_for_alt()
write_apply(t, new_alt) ==
    /\ status = "running"
    /\ pc[t] = "reverted"
    /\ \E m \in hack_lookups_for_alt([ Manager EXCEPT !.current_alt = new_alt ]) :
          Becomes(m)
    /\ pc' = [ pc EXCEPT ![t] = "written" ]
    /\ UNCHANGED << loader, panel, section, lock,
                    filepath_backup, path_backup, selection, current_index, is_online,
                    call, calls, hist >>

\* lua on_load under the write guard: mgr.current_index = 0
write_on_load(t) ==
    /\ status = "running"
    /\ pc[t] = "writing"
    /\ current_index' = 0
    /\ pc' = [ pc EXCEPT ![t] = "written" ]
    /\ UNCHANGED << loader, panel, section, lock,
                    file_hash_to_path_index, path_to_index, filepath_backup, path_backup,
                    selection, current_alt, is_online, status, call, calls, live, strict,
                    hist >>

\* the write guard is dropped
release_write(t) ==
    /\ status = "running"
    /\ pc[t] = "written"
    /\ lock' = [ lock EXCEPT !.writer = 0 ]
    /\ pc' = [ pc EXCEPT ![t] = "idle" ]
    /\ UNCHANGED << loader, panel, section,
                    file_hash_to_path_index, path_to_index, filepath_backup, path_backup,
                    selection, current_index, current_alt, is_online, status, call, calls,
                    live, strict, hist >>

NextLock ==
    \/ \E t \in Threads : acquire_read(t)
    \/ \E t \in Threads, stage_name \in { "S", "U" }, index \in 0 .. 1 :
          locked_query(t, stage_name, index)
    \/ \E t \in Threads : release_read(t)
    \/ \E t \in Threads : acquire_write(t)
    \/ \E t \in Threads : write_revert(t)
    \/ \E t \in Threads, new_alt \in LockAlts : write_apply(t, new_alt)
    \/ \E t \in Threads : write_on_load(t)
    \/ \E t \in Threads : release_write(t)

SpecLock == Init /\ [][NextLock]_vars

-----------------------------------------------------------------------------
(* The manager over tables that lack a base file the search section lists. *)

\* the table without the entries of the hashes in gone
Without(table, gone) == [ p \in DOMAIN table \ gone |-> table[p] ]

\* the base files absent from the archive table, or from the search table
CorruptFiles == { join_path(SN, "b"), join_path(SN, "c") }

InitCorrupt ==
    /\ \E gone \in CorruptFiles, in_archive \in BOOLEAN :
          /\ file_hash_to_path_index =
                Without(InitialArchiveTable, IF in_archive THEN { gone } ELSE { })
          /\ path_to_index =
                Without(InitialSearchTable, IF in_archive THEN { } ELSE { gone })
    /\ dir_infos = << >>
    /\ filepath_backup = file_hash_to_path_index
    /\ path_backup = path_to_index
    /\ InitFields
    /\ section = SearchSection

SpecCorrupt == InitCorrupt /\ [][Next]_vars

-----------------------------------------------------------------------------
(* advance_alt with Selection::Random, one draw of the retry loop of       *)
(* get_random_alt per step.  The catalog builder is not part of the        *)
(* manager: the lists here add a stage D whose alts are all unsafe or      *)
(* ignored, so that online no draw passes.                                 *)

MaxSkips == 2    \* skipped draws counted before the counter saturates

RandomCatalog ==
    Catalog @@
    ( "D" :> << StageAlt("D", 0, SN :> SN, FALSE, FALSE, FALSE, FALSE),
                StageAlt("D", 1, SN :> S1, TRUE, TRUE, TRUE, TRUE) >> )

\* get_random_alt is running its loop
InLoop == call.op = "get_random_alt" /\ call.phase = "loop"

\* the draw alt is skipped by the loop of get_random_alt
random_skips(online, stage_name, alt, is_battle) ==
    \/ random_unsafe(online, RandomCatalog[stage_name][alt + 1], is_battle)
    \/ random_ignored(RandomCatalog[stage_name][alt + 1], is_battle)

\* advance_alt takes the Random arm and calls get_random_alt
random_enter(stage_name, is_battle) ==
    /\ status = "running"
    /\ call.op = "get_random_alt" => call.phase = "done"
    /\ call' = [ stage |-> stage_name,
                 alt |-> 0,
                 is_battle |-> is_battle,
                 op |-> "get_random_alt",
                 phase |-> IF stage_name \notin DOMAIN RandomCatalog
                              \/ RandomCatalog[stage_name] = << >>
                           THEN "returned" ELSE "loop",
                 skipped |-> 0 ]
    /\ UNCHANGED << loader, panel, section, lock, pc,
                    file_hash_to_path_index, path_to_index, filepath_backup, path_backup,
                    selection, current_index, current_alt, is_online, status, calls,
                    live, strict, hist >>

\* one pass of the loop that breaks on every draw but an unsafe one
random_draw_no_ignore(alt) ==
    /\ status = "running"
    /\ InLoop
    /\ alt < Len(RandomCatalog[call.stage])
    /\ call' = IF random_unsafe(is_online, RandomCatalog[call.stage][alt + 1],
                                call.is_battle)
               THEN [ call EXCEPT !.skipped = IF call.skipped < MaxSkips
                                              THEN call.skipped + 1 ELSE MaxSkips ]
               ELSE [ call EXCEPT !.phase = "returned", !.alt = alt ]
    /\ UNCHANGED << loader, panel, section, lock, pc,
                    file_hash_to_path_index, path_to_index, filepath_backup, path_backup,
                    selection, current_index, current_alt, is_online, status, calls,
                    live, strict, hist >>

\* one pass of the loop of get_random_alt with the draw rand % len = alt
random_draw(alt) ==
    /\ status = "running"
    /\ InLoop
    /\ alt < Len(RandomCatalog[call.stage])
    /\ call' = IF random_skips(is_online, call.stage, alt, call.is_battle)
               THEN [ call EXCEPT !.skipped = IF call.skipped < MaxSkips
                                              THEN call.skipped + 1 ELSE MaxSkips ]
               ELSE [ call EXCEPT !.phase = "returned", !.alt = alt ]
    /\ UNCHANGED << loader, panel, section, lock, pc,
                    file_hash_to_path_index, path_to_index, filepath_backup, path_backup,
                    selection, current_index, current_alt, is_online, status, calls,
                    live, strict, hist >>

\* get_random_alt has returned alt_id: advance_alt changes the alt and returns
random_finish ==
    /\ status = "running"
    /\ call.op = "get_random_alt" /\ call.phase = "returned"
    /\ \E m \in change_alt(Manager,
                           IF call.alt = 0 \/ call.stage \notin DOMAIN RandomCatalog
                           THEN None
                           ELSE alts_found_get(RandomCatalog[call.stage], call.alt)) :
          Becomes(m)
    /\ call' = [ call EXCEPT !.phase = "done" ]
    /\ UNCHANGED << loader, panel, section, lock, pc,
                    filepath_backup, path_backup, selection, current_index, is_online,
                    calls, hist >>

\* is_online is a public field: either value when get_random_alt is called
InitRandom ==
    /\ file_hash_to_path_index = InitialArchiveTable
    /\ dir_infos = << >>
    /\ path_to_index = InitialSearchTable
    /\ filepath_backup = InitialArchiveTable
    /\ path_backup = InitialSearchTable
    /\ selection = << >>
    /\ current_index = USIZE_MAX
    /\ current_alt = None
    /\ is_online \in BOOLEAN
    /\ status = "running"
    /\ call = Idle
    /\ calls = 0
    /\ live = None
    /\ strict = TRUE
    /\ hist = << >>
    /\ lock = Unlocked
    /\ pc = [ t \in Threads |-> "idle" ]
    /\ InitStatics
    /\ section = SearchSection

NextRandom ==
    \/ \E stage_name \in DOMAIN RandomCatalog \cup { "U" }, is_battle \in BOOLEAN :
          random_enter(stage_name, is_battle)
    \/ \E alt \in 0 .. MaxIndex : random_draw(alt)
    \/ random_finish

\* rand::random is fair: a value the draw can give is not avoided for ever;
\* advance_alt runs on once get_random_alt has returned
SpecRandom ==
    /\ InitRandom /\ [][NextRandom]_vars
    /\ \A alt \in 0 .. MaxIndex : WF_vars(random_draw(alt))
    /\ WF_vars(random_finish)

-----------------------------------------------------------------------------
(* The selection state machine over selections that name an alt of a       *)
(* catalogued stage: register_alt stores Regular { name, alt } for any     *)
(* stage and ordinal the scripting layer passes.                           *)

RegularSelections == { Regular("S", 2), Regular("T", 1), Regular("E", 1) }

NextRegular ==
    \/ \E count \in 0 .. MaxSel : set_stage_use_count(count)
    \/ \E index \in 0 .. MaxSel, sel \in RegularSelections :
          set_stage_selection(index, sel)
    \/ \E incoming \in { "S", "T", RESULT_STAGE }, is_battle \in BOOLEAN :
          advance_alt(incoming, is_battle)
    \/ on_load

SpecRegular == Init /\ [][NextRegular]_vars

-----------------------------------------------------------------------------
(* The selection state machine with is_online set either way and Regular   *)
(* selections that name alts the random draw would reject: S alt 2 is not  *)
(* wifi-safe in either form, T alt 2 is ignored in the battle form.        *)

OnlineSelections == { Regular("S", 2), Regular("T", 2) }

NextOnline ==
    \/ \E flag \in BOOLEAN : set_online(flag)
    \/ \E count \in 0 .. MaxSel : set_stage_use_count(count)
    \/ \E index \in 0 .. MaxSel, sel \in OnlineSelections :
          set_stage_selection(index, sel)
    \/ \E incoming \in { "S", "T" }, is_battle \in BOOLEAN :
          advance_alt(incoming, is_battle)
    \/ on_load

SpecOnline == Init /\ [][NextOnline]_vars

-----------------------------------------------------------------------------
(* search.rs collect_stage_alts and lib.rs: the catalog STAGE_ALT_LOOKUP   *)
(* built from the search section, and the content loader's hooks that read *)
(* it.  The section holds the stage folders common, A (two normal variants *)
(* and one battle variant), G (normal_s01 and normal_s03, no normal_s02),  *)
(* N (a battle form and no normal form) and poke_stadium2 (one variant     *)
(* with param/xstadium_00.lvd), and the effect folder of A with its        *)
(* variants.                                                               *)

\* format!("{:02}", n)
Digit(d) == << "0", "1", "2", "3", "4", "5", "6", "7", "8", "9" >>[d + 1]
fmt02(n) == IF n < 10 THEN "0" \o Digit(n) ELSE Digit(n \div 10) \o Digit(n % 10)

\* hash40_fmt!("normal_s{:02}", counter), hash40_fmt!("battle_s{:02}", counter)
variant_name(form, counter) == form \o "_s" \o fmt02(counter)

STAGE == << "stage" >>
EFFECT_STAGE == << "effect", "stage" >>
StagePath(stage) == join_path(STAGE, stage)
FormPath(stage, form) == join_path(StagePath(stage), form)

\* the names of the variant folders of the layout
VariantNames == { variant_name(form, k) : form \in { "normal", "battle", "A" }, k \in 1 .. 3 }

\* An entry of the layout: its path, whether it is a folder and whether a
\* mod added it.  A file under a variant folder is added; M is a file a mod
\* added to a folder of the game.
D(path) == << path, TRUE, \E k \in 1 .. Len(path) : path[k] \in VariantNames >>
F(path) == << path, FALSE, \E k \in 1 .. Len(path) : path[k] \in VariantNames >>
M(path) == << path, FALSE, TRUE >>

\* a form folder holding param/f and a, in the order the names are given
FormFolder(path, first, second) ==
    << D(path) >>
    \o ( IF first = "param"
         THEN << D(join_path(path, "param")), F(join_path(join_path(path, "param"), "f")) >>
         ELSE << F(join_path(path, first)) >> )
    \o ( IF second = "param"
         THEN << D(join_path(path, "param")), F(join_path(join_path(path, "param"), "f")) >>
         ELSE IF second = "" THEN << >>
         ELSE << F(join_path(path, second)) >> )

\* a folder holding the files named
FlatFolder(path, names) == << D(path) >> \o [ k \in 1 .. Len(names) |-> F(join_path(path, names[k])) ]

\* The layouts: `complete` holds every base file in every variant; without
\* it normal_s02 of A lacks the base file a.  `one_slot` holds the effect
\* files ef_A_s01.eff and ef_A_s02.eff the catalog names for the variants.
\* G holds a base file m that a mod added.
Layout(complete, one_slot) ==
    << D(STAGE), D(StagePath("common")) >>
    \o FlatFolder(FormPath("common", "normal"), << "a" >>)
    \o FlatFolder(FormPath("common", "normal_s01"), << "a" >>)
    \o << D(StagePath("A")) >>
    \o FormFolder(FormPath("A", "normal"), "a", "param")
    \o FormFolder(FormPath("A", "normal_s01"), "param", "a")
    \o FormFolder(FormPath("A", "normal_s02"), "param", IF complete THEN "a" ELSE "")
    \o FlatFolder(FormPath("A", "battle"), << "a", "b" >>)
    \o FlatFolder(FormPath("A", "battle_s01"), << "b", "a" >>)
    \o << D(StagePath("G")) >>
    \o FlatFolder(FormPath("G", "normal"), << "a" >>)
    \o << M(join_path(FormPath("G", "normal"), "m")) >>
    \o FlatFolder(FormPath("G", "normal_s03"), << "a" >>)
    \o FlatFolder(FormPath("G", "normal_s01"), << "a" >>)
    \o << D(StagePath("N")) >>
    \o FlatFolder(FormPath("N", "battle"), << "a" >>)
    \o FlatFolder(FormPath("N", "battle_s01"), << "a" >>)
    \o << D(StagePath("poke_stadium2")) >>
    \o FlatFolder(FormPath("poke_stadium2", "normal"), << "a" >>)
    \o FlatFolder(FormPath("poke_stadium2", "normal_s01"), << "a" >>)
    \o FlatFolder(join_path(FormPath("poke_stadium2", "normal_s01"), "param"),
                  << "x", "xstadium_00.lvd" >>)
    \o << D(<< "effect" >>), D(EFFECT_STAGE) >>
    \o FlatFolder(join_path(EFFECT_STAGE, "A"), << "ef_A.eff", "ef_A.nutexb" >>)
    \o ( IF one_slot
         THEN << M(join_path(join_path(EFFECT_STAGE, "A"), "ef_A_s01.eff")),
                 M(join_path(join_path(EFFECT_STAGE, "A"), "ef_A_s02.eff")) >>
         ELSE << >> )
    \o FlatFolder(join_path(EFFECT_STAGE, "A_s01"), << "ef_A.nutexb", "ef_A.eff" >>)
    \o FlatFolder(join_path(EFFECT_STAGE, "A_s02"), << "ef_A.eff", "ef_A.nutexb" >>)

\* the least element of a set of numbers
Least(S) == CHOOSE j \in S : \A k \in S : j <= k

\* the entries of the layout that follow entry i under the same parent
LaterSiblings(entries, i) ==
    { j \in i + 1 .. Len(entries) : Front(entries[j][1]) = Front(entries[i][1]) }

\* the entries of the layout directly under a folder
ChildrenOf(entries, folder) ==
    { j \in 1 .. Len(entries) : Front(entries[j][1]) = folder }

\* The search section of a layout over the path-list-indices table t: the
\* children of a folder are chained in the order of the layout.
BuildSection(entries, t) ==
    [ path_to_index |-> [ p \in { entries[i][1] : i \in 1 .. Len(entries) } |->
                            CiIn(t, ( CHOOSE i \in 1 .. Len(entries) : entries[i][1] = p ) - 1) ],
      folders |-> [ d \in { entries[i][1] : i \in { j \in 1 .. Len(entries) : entries[j][2] } } |->
                      IF ChildrenOf(entries, d) = { } THEN NO_INDEX
                      ELSE CiIn(t, Least(ChildrenOf(entries, d)) - 1) ],
      path_list_indices |-> [ ci \in 0 .. Len(t) - 1 |-> t[ci + 1] ],
      path_list |-> [ pi \in 0 .. Len(entries) - 1 |->
                        PathEntry(entries[pi + 1][1], entries[pi + 1][2],
                                  IF LaterSiblings(entries, pi + 1) = { } THEN NO_INDEX
                                  ELSE CiIn(t, Least(LaterSiblings(entries, pi + 1)) - 1)) ] ]

\* The path list of a layout: the entries of the game, then the entries
\* the mods added, which the mod loader appends.
PathListOf(entries) ==
    SelectSeq(entries, LAMBDA e : ~e[3]) \o SelectSeq(entries, LAMBDA e : e[3])

\* The path-list-indices tables over n entries of which the first v are the
\* game's: the identity, and the reversal of the game's entries.  An entry
\* the mod loader appends has the same index in both tables.
IdentityTable(v, n) == [ ci \in 1 .. n |-> ci - 1 ]
MixedTable(v, n) == [ ci \in 1 .. n |-> IF ci <= v THEN v - ci ELSE ci - 1 ]

\* lib.rs StageAltFolder::new, add_file, new_path
StageAltFolder(alt_no, base, new) ==
    [ alt_no |-> alt_no, base_path |-> base, new_path |-> new, files |-> << >> ]
add_file(folder, name) == [ folder EXCEPT !.files = Append(@, name) ]
StageAltFolder_new_path(folder, name) == join_path(folder.new_path, name)

\* lib.rs StageAlts::new
StageAlts == [ folders |-> << >>, available_normal |-> << >>, available_battle |-> << >> ]

\* StageAlts::add_alt
add_alt(alts, base_path, alt) ==
    IF base_path \in DOMAIN alts.folders
    THEN [ alts EXCEPT !.folders[base_path] = Append(@, alt) ]
    ELSE [ alts EXCEPT !.folders = ( base_path :> << alt >> ) @@ @ ]

\* StageAlts::get_alt: the first folder of the list with the ordinal
get_alt(alts, path, alt_no) ==
    IF path \notin DOMAIN alts.folders THEN None
    ELSE LET list == alts.folders[path]
             hits == { k \in 1 .. Len(list) : list[k].alt_no = alt_no }
         IN IF hits = { } THEN None ELSE Some(list[Least(hits)])

\* StageAlts::set_available_normal, set_available_battle
set_available_normal(alts, path, available) ==
    [ alts EXCEPT !.available_normal =
        [ p \in DOMAIN @ \cup { path } |-> IF p = path THEN available ELSE @[p] ] ]
set_available_battle(alts, path, available) ==
    [ alts EXCEPT !.available_battle =
        [ p \in DOMAIN @ \cup { path } |-> IF p = path THEN available ELSE @[p] ] ]

\* is_available_normal with the bound included
is_available_normal_inclusive(alts, path, what) ==
    IF path \in DOMAIN alts.available_normal THEN what <= alts.available_normal[path]
    ELSE FALSE

\* StageAlts::is_available_normal, is_available_battle
is_available_normal(alts, path, what) ==
    IF path \in DOMAIN alts.available_normal THEN what < alts.available_normal[path]
    ELSE FALSE
is_available_battle(alts, path, what) ==
    IF path \in DOMAIN alts.available_battle THEN what < alts.available_battle[path]
    ELSE FALSE

\* StageAlts::max_normal, max_battle
max_normal(alts, path) ==
    IF path \in DOMAIN alts.available_normal THEN alts.available_normal[path] ELSE 0
max_battle(alts, path) ==
    IF path \in DOMAIN alts.available_battle THEN alts.available_battle[path] ELSE 0

\* search.get_path_list_index_from_hash
get_path_list_index_from_hash(search, hash) ==
    IF hash \in DOMAIN search.path_to_index
    THEN Some(search.path_list_indices[search.path_to_index[hash]])
    ELSE None

RECURSIVE ChildReferencingLoop(_, _, _, _, _)
\* The loop of get_child_referencing from child_index on
ChildReferencingLoop(search, child_index, child, prev, fuel) ==
    IF child_index = NO_INDEX THEN Returns(None)
    ELSE IF fuel = 0 THEN Diverges
    ELSE LET path_index == search.path_list_indices[child_index] IN
         IF path_index = NO_INDEX THEN Returns(None)
         ELSE LET path == search.path_list[path_index] IN
              IF path.file_name = child THEN Returns(Some(prev))
              ELSE ChildReferencingLoop(search, path.index, child, child_index, fuel - 1)

\* get_child_referencing: the child index of the sibling before the child
get_child_referencing(search, index, child) ==
    IF index \notin DOMAIN search.path_list THEN Returns(None)
    ELSE LET parent == search.path_list[index] IN
         IF parent.path \notin DOMAIN search.folders THEN Returns(None)
         ELSE ChildReferencingLoop(search, search.folders[parent.path], child, NO_INDEX,
                                   Cardinality(DOMAIN search.path_list_indices))

RECURSIVE diff_folders_from(_, _, _, _, _)
RECURSIVE DiffLoop(_, _, _, _, _, _, _)

\* The loop of diff_folders over the children of src: new_files maps a file
\* of src to the path it is missing at.
DiffLoop(search, arc, dst, path_index, children, new_files, entered) ==
    IF children = << >> THEN Returns(new_files)
    ELSE LET child == Head(children)
             entry == search.path_list[child.index]
             name == entry.file_name
         IN IF child.kind = "File"
            THEN IF entry.path \notin DOMAIN arc
                 THEN DiffLoop(search, arc, dst, path_index, Tail(children), new_files,
                               entered)
                 ELSE LET found == IF path_index # NO_INDEX
                                   THEN get_direct_child(search, path_index, name)
                                   ELSE Returns(None)
                      IN IF found = Diverges THEN Diverges
                         ELSE DiffLoop(search, arc, dst, path_index, Tail(children),
                                       IF found.value = None
                                       THEN ( entry.path :> join_path(dst, name) ) @@ new_files
                                       ELSE new_files,
                                       entered)
            ELSE LET inner == diff_folders_from(search, arc, entry.path,
                                                join_path(dst, name), entered)
                 IN IF inner = Diverges THEN Diverges
                    ELSE DiffLoop(search, arc, dst, path_index, Tail(children),
                                  inner.value @@ new_files, entered)

\* The body of diff_folders inside the calls for the folders `entered`: a
\* call for a folder inside its own call never unwinds.
diff_folders_from(search, arc, src, dst, entered) ==
    IF src \in entered THEN Diverges
    ELSE IF walk_hangs(search, src, 1, 1) THEN Diverges
    ELSE LET found == get_path_list_index_from_hash(search, dst) IN
         DiffLoop(search, arc, dst, IF found = None THEN NO_INDEX ELSE found[1],
                  walk_search_section(search, src, 1), << >>, entered \cup { src })

\* diff_folders: the files of src registered in the archive that dst lacks
diff_folders(search, arc, src, dst) ==
    diff_folders_from(search, arc, src, dst, { })

RECURSIVE collect_alts_from(_, _, _, _, _)
RECURSIVE CollectLoop(_, _, _, _, _, _, _)

\* The loop of collect_alts over the children of the variant folder
CollectLoop(search, base_path, alt_no, walked, self_alt, alts, entered) ==
    IF walked = << >>
    THEN Returns(IF self_alt.files # << >> THEN Append(alts, self_alt) ELSE alts)
    ELSE LET child == search.path_list[Head(walked).index] IN
         IF Head(walked).kind = "File"
         THEN CollectLoop(search, base_path, alt_no, Tail(walked),
                          add_file(self_alt, child.file_name), alts, entered)
         ELSE LET inner == collect_alts_from(search, join_path(base_path, child.file_name),
                                             Head(walked).index, alt_no, entered)
              IN IF inner = Diverges THEN Diverges
                 ELSE CollectLoop(search, base_path, alt_no, Tail(walked), self_alt,
                                  alts \o inner.value, entered)

\* The body of collect_alts inside the calls for the folders `entered`
collect_alts_from(search, base_path, index, alt_no, entered) ==
    IF index \in entered THEN Diverges
    ELSE LET hash == search.path_list[index].path IN
         IF walk_hangs(search, hash, 1, 1) THEN Diverges
         ELSE CollectLoop(search, base_path, alt_no, walk_search_section(search, hash, 1),
                          StageAltFolder(alt_no, base_path, hash), << >>,
                          entered \cup { index })

\* collect_alts: one StageAltFolder for every folder under the variant that
\* holds files, the subfolders' before the folder's own
collect_alts(search, base_path, index, alt_no) ==
    collect_alts_from(search, base_path, index, alt_no, { })

\* get_eff_folder_from_stage, get_eff_name_from_stage
get_eff_folder_from_stage(stage) == join_path(EFFECT_STAGE, stage)
get_eff_name_from_stage(stage, alt) ==
    IF alt = 0 THEN concat(concat("ef_", stage), ".eff")
    ELSE concat(concat("ef_", stage), "_s" \o fmt02(alt) \o ".eff")

\* collect_stage_alts between two of its steps: the section as rewritten so
\* far, the catalog, the files found missing and how the run goes on
Building(search, alts, missing) ==
    [ search |-> search, outcome |-> "running", alts |-> alts, missing |-> missing ]
Stopped(b, outcome) == [ b EXCEPT !.outcome = outcome ]

RECURSIVE SpecificLoop(_, _, _)
\* The loop of fix_order_specific_files over normal_s01, normal_s02, ...:
\* xstadium_00.lvd is moved to the head of its param folder.
SpecificLoop(b, index, counter) ==
    LET search == b.search
        found == get_direct_child(search, index, variant_name("normal", counter))
    IN IF found = Diverges THEN Stopped(b, "diverges")
       ELSE IF found.value = None THEN b
       ELSE LET param_folder == get_direct_child(search, found.value[1], "param") IN
            IF param_folder = Diverges THEN Stopped(b, "diverges")
            ELSE IF param_folder.value = None THEN SpecificLoop(b, index, counter + 1)
            ELSE LET referencing == get_child_referencing(search, param_folder.value[1],
                                                          "xstadium_00.lvd")
                 IN IF referencing = Diverges THEN Stopped(b, "diverges")
                    ELSE IF referencing.value = None \/ referencing.value[1] = NO_INDEX
                    THEN SpecificLoop(b, index, counter + 1)
                    ELSE LET lvd_index == search.path_list[referencing.value[1]].index IN
                         IF lvd_index \notin DOMAIN search.path_list
                         THEN Stopped(b, "panics")
                         ELSE LET lvd_next == search.path_list[lvd_index].index
                                  parent_hash == search.path_list[param_folder.value[1]].path
                                  first_child_index == search.folders[parent_hash]
                              IN SpecificLoop(
                                   [ b EXCEPT !.search =
                                       [ search EXCEPT
                                           !.folders[parent_hash] = lvd_index,
                                           !.path_list =
                                              [ [ @ EXCEPT ![referencing.value[1]].index = lvd_next ]
                                                EXCEPT ![lvd_index].index = first_child_index ] ] ],
                                   index, counter + 1)

\* fix_order_specific_files
fix_order_specific_files(search) ==
    LET index == get_path_list_index_from_hash(search, StagePath("poke_stadium2")) IN
    IF index = None THEN Stopped(Building(search, StageAlts, { }), "panics")
    ELSE SpecificLoop(Building(search, StageAlts, { }), index[1], 1)

RECURSIVE AddAll(_, _)
\* for alt in alt_list { alts.add_alt(alt.base_path, alt) }
AddAll(alts, alt_list) ==
    IF alt_list = << >> THEN alts
    ELSE AddAll(add_alt(alts, Head(alt_list).base_path, Head(alt_list)), Tail(alt_list))

\* the merge of one diff into missing_files: a file is listed once for every
\* path it is missing at
Merged(missing_files, missing) ==
    missing_files \cup { << k, missing[k] >> : k \in DOMAIN missing }

RECURSIVE FormLoop(_, _, _, _, _, _)
\* The while loop of collect_stage_alts over <form>_s01, <form>_s02, ... of
\* the stage at `index`, and the available count set after it
FormLoop(b, arc, index, form, base, counter) ==
    LET search == b.search
        stage == search.path_list[index].file_name
        found == get_direct_child(search, index, variant_name(form, counter))
    IN IF found = Diverges THEN Stopped(b, "diverges")
       ELSE IF found.value = None
       THEN [ b EXCEPT !.alts = IF form = "normal"
                                THEN set_available_normal(@, stage, counter)
                                ELSE set_available_battle(@, stage, counter) ]
       ELSE LET alt == found.value[1]
                base_path == search.path_list[base].path
                alt_path == search.path_list[alt].path
                missing == diff_folders(search, arc, base_path, alt_path)
            IN IF missing = Diverges THEN Stopped(b, "diverges")
               ELSE LET fixed == IF DOMAIN missing.value = { }
                                 THEN file_order_fix(search, base_path, alt_path)
                                 ELSE Fixed(search)
                    IN IF fixed.hung
                       THEN Stopped([ b EXCEPT !.search = fixed.search ], "diverges")
                       ELSE LET alt_list == collect_alts(fixed.search, base_path, alt, counter)
                                effect_alt ==
                                    add_file(StageAltFolder(counter,
                                                            get_eff_folder_from_stage(stage),
                                                            get_eff_folder_from_stage(stage)),
                                             get_eff_name_from_stage(stage, counter))
                            IN IF alt_list = Diverges
                               THEN Stopped([ b EXCEPT !.search = fixed.search ], "diverges")
                               ELSE FormLoop(
                                      Building(fixed.search,
                                               AddAll(b.alts,
                                                      IF \/ form = "normal"
                                                         \/ get_alt(b.alts, effect_alt.base_path,
                                                                    effect_alt.alt_no) = None
                                                      THEN Append(alt_list.value, effect_alt)
                                                      ELSE alt_list.value),
                                               Merged(b.missing, missing.value)),
                                      arc, index, form, base, counter + 1)

\* if let Some(normal) = get_direct_child(.., "normal") { .. } and the same
\* block for "battle"
collect_form(b, arc, index, form) ==
    IF b.outcome # "running" THEN b
    ELSE LET base == get_direct_child(b.search, index, form) IN
         IF base = Diverges THEN Stopped(b, "diverges")
         ELSE IF base.value = None THEN b
         ELSE FormLoop(b, arc, index, form, base.value[1], 1)

RECURSIVE StageLoop(_, _, _)
\* for child in stage: every folder but `common`
StageLoop(b, arc, stage) ==
    IF b.outcome # "running" \/ stage = << >> THEN b
    ELSE LET child == Head(stage) IN
         IF child.kind # "Folder" THEN StageLoop(b, arc, Tail(stage))
         ELSE IF b.search.path_list[child.index].file_name = "common"
         THEN StageLoop(b, arc, Tail(stage))
         ELSE StageLoop(collect_form(collect_form(b, arc, child.index, "normal"),
                                     arc, child.index, "battle"),
                        arc, Tail(stage))

Max(a, b) == IF a >= b THEN a ELSE b

RECURSIVE EffectCounterLoop(_, _, _, _, _)
\* for counter in 1..max over the effect folder `path`
EffectCounterLoop(b, arc, path, counter, max) ==
    IF b.outcome # "running" \/ counter >= max THEN b
    ELSE LET search == b.search
             new_path == join_path(path.parent,
                                   concat(path.file_name, "_s" \o fmt02(counter)))
             missing == diff_folders(search, arc, path.path, new_path)
         IN IF missing = Diverges THEN Stopped(b, "diverges")
            ELSE LET fixed == IF DOMAIN missing.value = { }
                              THEN file_order_fix(search, path.path, new_path)
                              ELSE Fixed(search)
                 IN IF fixed.hung
                    THEN Stopped([ b EXCEPT !.search = fixed.search ], "diverges")
                    ELSE LET index == get_path_list_index_from_hash(fixed.search, new_path)
                             alt_paths == IF index = None THEN Returns(<< >>)
                                          ELSE collect_alts(fixed.search, path.path,
                                                            index[1], counter)
                         IN IF alt_paths = Diverges
                            THEN Stopped([ b EXCEPT !.search = fixed.search ], "diverges")
                            ELSE EffectCounterLoop(
                                   Building(fixed.search, AddAll(b.alts, alt_paths.value),
                                            Merged(b.missing, missing.value)),
                                   arc, path, counter + 1, max)

RECURSIVE EffectLoop(_, _, _)
\* for effect_child in children of effect/stage
EffectLoop(b, arc, children) ==
    IF b.outcome # "running" \/ children = << >> THEN b
    ELSE LET index == get_path_list_index_from_hash(b.search, Head(children)) IN
         IF index = None THEN EffectLoop(b, arc, Tail(children))
         ELSE LET path == b.search.path_list[index[1]]
                  max == Max(max_normal(b.alts, path.file_name),
                             max_battle(b.alts, path.file_name))
              IN EffectLoop(EffectCounterLoop(b, arc, path, 1, max), arc, Tail(children))

\* arc.get_dir_info_from_hash
get_dir_info_from_hash(dirs, hash) ==
    LET hits == { k \in 1 .. Len(dirs) : dirs[k].path = hash } IN
    IF hits = { } THEN None ELSE Some(dirs[Least(hits)])

\* the end of collect_stage_alts: missing files are written to the
\* configuration and the game is relaunched, otherwise the catalog is returned
finish_collect(done) ==
    IF done.outcome # "running" THEN done
    ELSE IF done.missing # { } THEN Stopped(done, "relaunch")
    ELSE Stopped(done, "returns")

\* collect_stage_alts after the loop over the stage folders: the loop over
\* the children of effect/stage
collect_effects(staged, arc, effect_dir) ==
    IF staged.outcome # "running" THEN staged
    ELSE IF effect_dir = None THEN Stopped(staged, "panics")
    ELSE finish_collect(EffectLoop(staged, arc, effect_dir[1].children))

\* collect_stage_alts after fix_order_specific_files: the loop over the
\* stage folders
collect_stages(ordered, arc, dirs) ==
    IF ordered.outcome # "running" THEN ordered
    ELSE IF walk_hangs(ordered.search, STAGE, 1, 1) THEN Stopped(ordered, "diverges")
    ELSE collect_effects(StageLoop(ordered, arc,
                                   walk_search_section(ordered.search, STAGE, 1)),
                         arc, get_dir_info_from_hash(dirs, EFFECT_STAGE))

\* collect_stage_alts up to its return: the catalog, the section it leaves
\* and the files to be added to the configuration
collect_stage_alts(search, arc, dirs) ==
    collect_stages(fix_order_specific_files(search), arc, dirs)

MaxLoads == 1    \* directories materialized by init_loaded_dir

\* the layouts the catalog is built over, and those of them that are
\* complete, over which the hooks of the loader are followed
CatalogLayouts == { Layout(TRUE, TRUE), Layout(TRUE, FALSE), Layout(FALSE, TRUE) }
LoadLayouts == { Layout(TRUE, TRUE), Layout(TRUE, FALSE) }

\* the first FilePathIdx of a file that rom:/data.arc does not hold: the
\* files mods add are appended to the archive's table
FirstAdded == 1000

\* The loaded archive over a layout: the FilePathIdx of every file
ArchiveTable(entries) ==
    [ p \in { entries[i][1] : i \in { j \in 1 .. Len(entries) : ~entries[j][2] } } |->
        LET i == CHOOSE j \in 1 .. Len(entries) : entries[j][1] = p IN
        IF entries[i][3] THEN FirstAdded + i - 1 ELSE 100 + i - 1 ]

\* ArcFile::open("rom:/data.arc"): the archive without the files mods added
data_arc(arc) == [ p \in { q \in DOMAIN arc : arc[q] < FirstAdded } |-> arc[p] ]

\* the directories of rom:/data.arc: those with a file of the game under
\* them, with their child folders that have one
data_arc_dirs(arc, dirs) ==
    LET held == SelectSeq(dirs, LAMBDA d : \E q \in DOMAIN data_arc(arc) :
                                             /\ Len(q) > Len(d.path)
                                             /\ SubSeq(q, 1, Len(d.path)) = d.path)
    IN [ k \in 1 .. Len(held) |->
           [ held[k] EXCEPT !.children =
               SelectSeq(@, LAMBDA c : \E j \in 1 .. Len(held) : held[j].path = c) ] ]

\* arc.get_dir_infos(): every directory with its child folders and the
\* FilePathIdx of its files
DirInfos(entries) ==
    LET dirs == SelectSeq(entries, LAMBDA e : e[2])
        arc == ArchiveTable(entries)
    IN [ k \in 1 .. Len(dirs) |->
           LET under == SelectSeq(entries, LAMBDA e : Front(e[1]) = dirs[k][1])
               folders == SelectSeq(under, LAMBDA e : e[2])
               files == SelectSeq(under, LAMBDA e : ~e[2] /\ e[1] \in DOMAIN arc)
           IN [ path |-> dirs[k][1],
                children |-> [ c \in 1 .. Len(folders) |-> folders[c][1] ],
                files |-> [ c \in 1 .. Len(files) |-> arc[files[c][1]] ] ] ]

\* the process as it starts over one of the layouts and one of the tables
InitOver(layouts) ==
    /\ \E layout \in layouts, mixed \in BOOLEAN :
          LET entries == PathListOf(layout)
              v == Len(SelectSeq(layout, LAMBDA e : ~e[3]))
          IN /\ section = BuildSection(entries, IF mixed THEN MixedTable(v, Len(entries))
                                                ELSE IdentityTable(v, Len(entries)))
             /\ file_hash_to_path_index = ArchiveTable(entries)
             /\ dir_infos = DirInfos(entries)
    /\ path_to_index = section.path_to_index
    /\ filepath_backup = file_hash_to_path_index
    /\ path_backup = path_to_index
    /\ InitFields

InitCatalog == InitOver(CatalogLayouts)
InitLoad == InitOver(LoadLayouts)

\* the manager's variables, which the loader's hooks leave alone
manager == << path_to_index, filepath_backup, path_backup, selection, current_index,
              current_alt, is_online, live, strict, hist, lock, pc, panel >>

\* Lazy::force(&STAGE_ALT_LOOKUP), from initial_loading_hook or from the
\* first hook that reads the catalog: collect_stage_alts runs once.  With
\* files missing it writes the configuration and asks for a relaunch, which
\* ends the process, fails or returns.
force_stage_alt_lookup ==
    /\ status = "running"
    /\ stage_alt_lookup = None
    /\ \E b \in { collect_stage_alts(section, data_arc(file_hash_to_path_index),
                                      data_arc_dirs(file_hash_to_path_index, dir_infos)) } :
         /\ section' = b.search
         /\ \E end \in CASE b.outcome = "returns" -> { "running" }
                         [] b.outcome = "relaunch" -> { "running", "relaunched", "panicked" }
                         [] b.outcome = "panics" -> { "panicked" }
                         [] OTHER -> { "hung" } :
               /\ status' = end
               /\ stage_alt_lookup' = IF end = "running" THEN Some(b.alts) ELSE None
               /\ call' = [ op |-> "collect_stage_alts",
                            result |-> end,
                            before |-> section,
                            missing |-> b.missing ]
    /\ UNCHANGED << CURRENT_STAGE_INDEX, INCOMING_RANDOM, INCOMING_ALTS, loaded_directories,
                    ref_counts, dir_infos, file_hash_to_path_index, calls, manager >>

\* the values the hooks tell apart in a slot of INCOMING_ALTS: an ordinal,
\* usize::MAX for a random normal form, usize::MAX - 1 for a random battle
\* form
SlotValues == { 1, USIZE_MAX, USIZE_MAX - 1 }

\* INCOMING_ALTS[slot] = alt_no.  The array is a public mutable static that
\* the hooks read; no function of lua.rs or lib.rs assigns it, so the write
\* is a step of the environment.
set_incoming_alt(slot, alt_no) ==
    /\ status = "running"
    /\ INCOMING_ALTS' = [ INCOMING_ALTS EXCEPT ![slot + 1] = alt_no ]
    /\ call' = [ op |-> "set_incoming_alt", result |-> "returns" ]
    /\ UNCHANGED << stage_alt_lookup, CURRENT_STAGE_INDEX, INCOMING_RANDOM,
                    loaded_directories, ref_counts, dir_infos, file_hash_to_path_index,
                    section, status, calls, manager >>

\* lua.rs off_load: the write lock is taken and the cursor set to usize::MAX
off_load ==
    /\ status = "running"
    /\ lock = Unlocked
    /\ CURRENT_STAGE_INDEX' = USIZE_MAX
    /\ call' = [ op |-> "off_load", result |-> "returns" ]
    /\ UNCHANGED << stage_alt_lookup, INCOMING_RANDOM, INCOMING_ALTS,
                    loaded_directories, ref_counts, dir_infos, file_hash_to_path_index,
                    section, status, calls, manager >>

\* search.get_path_list_entry_from_hash
get_path_list_entry_from_hash(search, hash) ==
    LET index == get_path_list_index_from_hash(search, hash) IN
    IF index = None THEN None ELSE Some(search.path_list[index[1]])

\* the stage whose available count prepare_for_load reads for the path in
\* x8: the name of the path's parent folder
stage_of(search, x8) ==
    LET path == get_path_list_entry_from_hash(search, x8) IN
    IF path = None THEN None
    ELSE LET parent == get_path_list_entry_from_hash(search, path[1].parent) IN
         IF parent = None THEN None ELSE Some(parent[1].file_name)

\* the paths prepare_for_load is entered with in x8
LoadPaths == { FormPath("A", "normal"), FormPath("G", "normal"), FormPath("N", "battle"),
               << "stage", "missing", "normal" >> }

\* the cursor after prepare_for_load's first statement
next_stage_index(index) == IF index = USIZE_MAX THEN 0 ELSE ( index + 1 ) % 3

\* prepare_for_load: the cursor moves on; for a random slot the ordinal is
\* drawn below the stage's available count
prepare_for_load(x8) ==
    /\ status = "running"
    /\ LET index == next_stage_index(CURRENT_STAGE_INDEX)
           slot == INCOMING_ALTS[index + 1]
           stage == stage_of(section, x8)
       IN /\ CURRENT_STAGE_INDEX' = index
          /\ IF slot \in { USIZE_MAX, USIZE_MAX - 1 } /\ stage # None
             THEN /\ stage_alt_lookup # None
                  /\ LET max == IF slot = USIZE_MAX
                                THEN max_normal(stage_alt_lookup[1], stage[1])
                                ELSE max_battle(stage_alt_lookup[1], stage[1])
                     IN \E random \in IF max = 0 THEN { 0 } ELSE 0 .. max - 1 :
                           INCOMING_RANDOM' = random
             ELSE INCOMING_RANDOM' = INCOMING_RANDOM
          /\ call' = [ index |-> index, op |-> "prepare_for_load", result |-> "returns" ]
    /\ UNCHANGED << stage_alt_lookup, INCOMING_ALTS, loaded_directories, ref_counts,
                    dir_infos, file_hash_to_path_index, section, status, calls, manager >>

RECURSIVE Counted(_, _, _)
\* ref_counts after refc (by = 1) or unrefc (by = -1) for every index listed
Counted(counts, indices, by) ==
    IF indices = << >> THEN counts
    ELSE Counted([ i \in DOMAIN counts \cup { Head(indices) } |->
                     ( IF i \in DOMAIN counts THEN counts[i] ELSE 0 )
                     + ( IF i = Head(indices) THEN by ELSE 0 ) ],
                 Tail(indices), by)

\* unrefc for every index listed
unrefc(counts, indices) == Counted(counts, indices, 0 - 1)

\* refc counting every index twice
refc_twice(counts, indices) == Counted(counts, indices, 2)

\* refc for every index listed
refc(counts, indices) == Counted(counts, indices, 1)

RECURSIVE Acquired(_, _, _)
\* The second loop of init_loaded_dir: the file path index of every file of
\* the variant up to the first that the archive does not hold
Acquired(arc, alt, files) ==
    IF files = << >> THEN << >>
    ELSE IF StageAltFolder_new_path(alt, Head(files)) \notin DOMAIN arc THEN << >>
    ELSE << arc[StageAltFolder_new_path(alt, Head(files))] >> \o Acquired(arc, alt, Tail(files))

\* the directories init_loaded_dir is called for, by index into dir_infos,
\* and an index past the end
LoadDirs == { FormPath("A", "normal"), FormPath("A", "battle"), join_path(EFFECT_STAGE, "A") }
LoadIndices == { k \in 0 .. Len(dir_infos) : k = Len(dir_infos) \/ dir_infos[k + 1].path \in LoadDirs }

\* init_loaded_dir: the original materializes the directory; the hook then
\* swaps in the files of the variant the current slot names
init_loaded_dir(index, null) ==
    /\ status = "running"
    /\ calls < MaxLoads
    /\ calls' = calls + 1
    /\ IF null \/ index >= Len(dir_infos)
       THEN /\ call' = [ index |-> index, alt |-> None, op |-> "init_loaded_dir",
                         result |-> "returns", before |-> << >>,
                         released |-> << >>, acquired |-> << >> ]
            /\ UNCHANGED << loaded_directories, ref_counts, status >>
       ELSE LET dir == dir_infos[index + 1]
                before == dir.files
            IN IF CURRENT_STAGE_INDEX \notin 0 .. 2
               THEN /\ status' = "panicked"
                    /\ loaded_directories' = ( index :> before ) @@ loaded_directories
                    /\ call' = [ index |-> index, alt |-> None, op |-> "init_loaded_dir",
                                 result |-> "panics", before |-> before,
                                 released |-> << >>, acquired |-> << >> ]
                    /\ UNCHANGED ref_counts
               ELSE /\ stage_alt_lookup # None
                    /\ LET slot == INCOMING_ALTS[CURRENT_STAGE_INDEX + 1]
                           alt_no == IF slot \in { USIZE_MAX, USIZE_MAX - 1 }
                                     THEN INCOMING_RANDOM ELSE slot
                           alt == get_alt(stage_alt_lookup[1], dir.path, alt_no)
                       IN IF alt = None
                          THEN /\ loaded_directories' = ( index :> before ) @@ loaded_directories
                               /\ call' = [ index |-> index, alt |-> None,
                                            op |-> "init_loaded_dir",
                                            result |-> "returns", before |-> before,
                                            released |-> << >>, acquired |-> << >> ]
                               /\ UNCHANGED << ref_counts, status >>
                          ELSE LET acquired == Acquired(file_hash_to_path_index, alt[1],
                                                        alt[1].files)
                                   complete == Len(acquired) = Len(alt[1].files)
                               IN /\ loaded_directories' =
                                        ( index :> acquired ) @@ loaded_directories
                                  /\ ref_counts' = refc(unrefc(ref_counts, before), acquired)
                                  /\ status' = IF complete THEN status ELSE "panicked"
                                  /\ call' = [ index |-> index, alt |-> alt,
                                               op |-> "init_loaded_dir",
                                               result |-> IF complete THEN "returns"
                                                          ELSE "panics",
                                               before |-> before,
                                               released |-> before, acquired |-> acquired ]
    /\ UNCHANGED << stage_alt_lookup, CURRENT_STAGE_INDEX, INCOMING_RANDOM, INCOMING_ALTS,
                    dir_infos, file_hash_to_path_index, section, manager >>

\* the path list entries check_extension_common is entered with: their
\* path and their extension
ExtensionEntries == { << join_path(join_path(EFFECT_STAGE, "A"), "ef_A_s01.eff"), "eff" >>,
                      << join_path(join_path(EFFECT_STAGE, "A"), "ef_A.eff"), "eff" >>,
                      << join_path(FormPath("A", "normal"), "a"), "bin" >> }

\* check_extension_common: FALSE for an effect file the current slot's
\* variant lists, TRUE otherwise
check_extension_common(path, ext) ==
    /\ status = "running"
    /\ IF ext # "eff"
       THEN /\ call' = [ value |-> TRUE,
                         op |-> "check_extension_common",
                         result |-> "returns" ]
            /\ UNCHANGED status
       ELSE IF CURRENT_STAGE_INDEX \notin 0 .. 2
       THEN /\ status' = "panicked"
            /\ call' = [ value |-> TRUE,
                         op |-> "check_extension_common",
                         result |-> "panics" ]
       ELSE /\ stage_alt_lookup # None
            /\ LET alt == get_alt(stage_alt_lookup[1], Front(path),
                                  INCOMING_ALTS[CURRENT_STAGE_INDEX + 1])
               IN call' = [ value |-> IF alt = None THEN TRUE
                                      ELSE ~ \E k \in 1 .. Len(alt[1].files) :
                                               alt[1].files[k] = Last(path),
                            op |-> "check_extension_common",
                            result |-> "returns" ]
            /\ UNCHANGED status
    /\ UNCHANGED << stage_alt_lookup, CURRENT_STAGE_INDEX, INCOMING_RANDOM, INCOMING_ALTS,
                    loaded_directories, ref_counts, dir_infos, file_hash_to_path_index,
                    section, calls, manager >>

\* the catalog is built and the slots are written and consumed
NextCatalog ==
    \/ force_stage_alt_lookup
    \/ \E slot \in 0 .. 2, alt_no \in SlotValues \ { 1 } : set_incoming_alt(slot, alt_no)
    \/ off_load
    \/ \E x8 \in LoadPaths : prepare_for_load(x8)

SpecCatalog == InitCatalog /\ [][NextCatalog]_vars

\* the hooks of the loader in any order, for the first variant and a random
\* normal form of stage A in the slot of the second stage of a session
NextLoad ==
    \/ force_stage_alt_lookup
    \/ \E alt_no \in SlotValues \ { USIZE_MAX - 1 } : set_incoming_alt(1, alt_no)
    \/ off_load
    \/ prepare_for_load(FormPath("A", "normal"))
    \/ \E index \in LoadIndices, null \in BOOLEAN : init_loaded_dir(index, null)
    \/ \E entry \in ExtensionEntries : check_extension_common(entry[1], entry[2])

SpecLoad == InitLoad /\ [][NextLoad]_vars

-----------------------------------------------------------------------------
(* The scripting callbacks of lua.rs and the entrance hook, each on a thread *)
(* of its own.  A callback takes the panel-lookup mutex and the manager      *)
(* lock one step at a time; a lock statement is enabled when parking_lot     *)
(* would grant the lock.                                                     *)

Getters == { "get_next_alt", "get_prev_alt", "get_index_for_texture" }
Writers == { "on_load", "off_load", "set_stage_use_num" }
Callbacks == Getters \cup Writers \cup { "register_alt", "is_valid_entrance_param" }

\* register_alt with the panel lookup made under the manager's write lock
lock_statements_write_first(callback) ==
    IF callback = "register_alt" THEN << "write", "lock_panel", "unlock_panel" >>
    ELSE IF callback \in Getters THEN << "lock_panel", "read" >>
    ELSE IF callback \in Writers THEN << "write" >>
    ELSE << "lock_panel" >>

\* The lock statements of a callback in program order.  register_alt drops
\* the panel guard, a temporary, at the end of the lookup statement; every
\* other guard lives until the callback returns.
lock_statements(callback) ==
    IF callback = "register_alt" THEN << "lock_panel", "unlock_panel", "write" >>
    ELSE IF callback \in Getters THEN << "lock_panel", "read" >>
    ELSE IF callback \in Writers THEN << "write" >>
    ELSE << "lock_panel" >>

\* the position of a thread that has run `done` lock statements of a callback
At(callback, done) == callback \o "@" \o Digit(done)

\* the panel ids the user interface passes
PanelIds == { 0, 1 }

\* the statement is enabled: PANEL_TO_HASH_LOOKUP2.lock(), alts::get(),
\* alts::get_mut(), the drop of a guard
Granted(statement) ==
    CASE statement = "lock_panel" -> panel.holder = 0
      [] statement = "read" -> lock.writer = 0
      [] statement = "write" -> lock.writer = 0 /\ lock.readers = { }
      [] OTHER -> TRUE

\* a thread runs the lock statement it is at; the first starts the callback
run_lock_statement(t, callback) ==
    /\ status = "running"
    /\ \E done \in 0 .. 2 :
          /\ pc[t] = IF done = 0 THEN "idle" ELSE At(callback, done)
          /\ done < Len(lock_statements(callback))
          /\ LET statement == lock_statements(callback)[done + 1] IN
               /\ Granted(statement)
               \* the manager is reached with the UI hash of the panel id
               /\ ( callback \in Getters \cup { "register_alt" }
                    /\ statement \in { "read", "write" } ) => panel.keys # { }
               /\ panel' = CASE statement = "lock_panel" -> [ panel EXCEPT !.holder = t ]
                             [] statement = "unlock_panel" -> [ panel EXCEPT !.holder = 0 ]
                             [] OTHER -> panel
               /\ lock' = CASE statement = "read" ->
                                 [ lock EXCEPT !.readers = lock.readers \cup { t } ]
                            [] statement = "write" -> [ lock EXCEPT !.writer = t ]
                            [] OTHER -> lock
          /\ pc' = [ pc EXCEPT ![t] = At(callback, done + 1) ]
    /\ UNCHANGED << loader, section, file_hash_to_path_index, path_to_index,
                    filepath_backup, path_backup, selection, current_index, current_alt,
                    is_online, status, call, calls, live, strict, hist >>

\* the guards of the thread are dropped and the thread returns
Dropped(t) ==
    /\ lock' = [ writer |-> IF lock.writer = t THEN 0 ELSE lock.writer,
                 readers |-> lock.readers \ { t } ]
    /\ pc' = [ pc EXCEPT ![t] = "idle" ]

\* register_alt and the getters return early when the panel id has no UI
\* hash: a getter from under the panel guard, register_alt after its drop
return_without_hash(t, callback, panel_id) ==
    /\ status = "running"
    /\ callback \in Getters \cup { "register_alt" }
    /\ pc[t] = At(callback, IF callback = "register_alt" THEN 2 ELSE 1)
    /\ lock.writer # t
    /\ panel_id \notin panel.keys
    /\ panel' = [ panel EXCEPT !.holder = IF @ = t THEN 0 ELSE @ ]
    /\ Dropped(t)
    /\ call' = [ op |-> callback, result |-> Returns(0) ]
    /\ UNCHANGED << loader, section, file_hash_to_path_index, path_to_index,
                    filepath_backup, path_backup, selection, current_index, current_alt,
                    is_online, status, calls, live, strict, hist >>

\* the work a callback does under its guards, and its return: the thread
\* has run every lock statement
return_from_callback(t, callback) ==
    /\ status = "running"
    /\ pc[t] = At(callback, Len(lock_statements(callback)))
    /\ Dropped(t)
    /\ CASE callback = "is_valid_entrance_param" ->
              /\ panel' = [ holder |-> 0, keys |-> panel.keys \cup { 0 } ]
              /\ call' = [ op |-> callback, result |-> Returns(0) ]
              /\ UNCHANGED << selection, current_index, CURRENT_STAGE_INDEX >>
         [] callback = "register_alt" ->
              /\ selection' = IF 0 >= Len(selection) THEN selection
                              ELSE [ selection EXCEPT ![1] = Random ]
              /\ call' = [ op |-> callback, result |-> Returns(0) ]
              /\ panel' = [ holder |-> IF panel.holder = t THEN 0 ELSE panel.holder,
                            keys |-> panel.keys ]
              /\ UNCHANGED << current_index, CURRENT_STAGE_INDEX >>
         [] callback = "set_stage_use_num" ->
              /\ selection' = [ i \in 1 .. 1 |-> Invalid ]
              /\ call' = [ op |-> callback, result |-> Returns(0) ]
              /\ UNCHANGED << panel, current_index, CURRENT_STAGE_INDEX >>
         [] callback = "on_load" ->
              /\ current_index' = 0
              /\ call' = [ op |-> callback, result |-> Returns(0) ]
              /\ UNCHANGED << panel, selection, CURRENT_STAGE_INDEX >>
         [] callback = "off_load" ->
              /\ CURRENT_STAGE_INDEX' = USIZE_MAX
              /\ call' = [ op |-> callback, result |-> Returns(0) ]
              /\ UNCHANGED << panel, selection, current_index >>
         [] OTHER ->
              /\ panel' = [ holder |-> 0, keys |-> panel.keys ]
              /\ \E result \in CASE callback = "get_next_alt" ->
                                      get_next_alt(is_online, "S", 0, FALSE)
                                 [] callback = "get_prev_alt" ->
                                      get_prev_alt(is_online, "S", 0, FALSE)
                                 [] OTHER -> { Returns(get_normal_ui_path("S", 0)) } :
                    call' = [ op |-> callback, result |-> result ]
              /\ UNCHANGED << selection, current_index, CURRENT_STAGE_INDEX >>
    /\ UNCHANGED << stage_alt_lookup, INCOMING_RANDOM, INCOMING_ALTS, loaded_directories,
                    ref_counts, dir_infos, section, file_hash_to_path_index, path_to_index,
                    filepath_backup, path_backup, current_alt, is_online, status, calls,
                    live, strict, hist >>

NextCallbacks ==
    \/ \E t \in Threads, callback \in Callbacks : run_lock_statement(t, callback)
    \/ \E t \in Threads, callback \in Callbacks, panel_id \in PanelIds :
          return_without_hash(t, callback, panel_id)
    \/ \E t \in Threads, callback \in Callbacks : return_from_callback(t, callback)

SpecCallbacks == Init /\ [][NextCallbacks]_vars

-----------------------------------------------------------------------------
(* Properties *)

\* the base files of an alt: the slots its apply and revert visit
BaseFiles(alt) ==
    IF alt = None THEN { }
    ELSE { e[1] : e \in file_lookup(SearchSection, alt[1].alt_folders) }

\* the names of the files directly under a folder
FileNamesUnder(folder) ==
    { SearchSection.path_list[e.index].file_name :
      e \in { x \in { walk_search_section(SearchSection, folder, 1)[k] :
                      k \in 1 .. Len(walk_search_section(SearchSection, folder, 1)) } :
              x.kind = "File" } }

ArcPatched == { p \in DOMAIN file_hash_to_path_index :
                  file_hash_to_path_index[p] # filepath_backup[p] }
SearchPatched == { p \in DOMAIN path_to_index : path_to_index[p] # path_backup[p] }

\* the alts the last call reverted / applied, in order
Reverted == { call.log[k][2] : k \in { j \in 1 .. Len(call.log) : call.log[j][1] = "revert" } }

\* C1: at most one alt is patched in and current_alt is that alt: the alt whose
\* patches are live is current_alt, every slot of either table that is not a
\* base file of current_alt holds its snapshot value, and with no current alt
\* both tables equal their snapshots.
C1_OnlyCurrentAltPatched ==
    /\ live = current_alt
    /\ ArcPatched \subseteq BaseFiles(current_alt)
    /\ SearchPatched \subseteq BaseFiles(current_alt)
    /\ current_alt = None =>
          /\ file_hash_to_path_index = filepath_backup
          /\ path_to_index = path_backup

\* C1 witness: an alt is current and its patches are in both tables
C1_Witness ==
    /\ current_alt # None
    /\ ArcPatched # { }
    /\ SearchPatched # { }

\* C2: apply(A) followed by revert(A) leaves every slot the apply wrote, in
\* both tables, at its snapshot value.
C2_RevertRoundTrip ==
    ( /\ Len(hist) = 2
      /\ hist[1].op = "hack" /\ hist[2].op = "unhack"
      /\ hist[1].alt = hist[2].alt )
    => /\ \A p \in hist[1].arc_written : file_hash_to_path_index[p] = filepath_backup[p]
       /\ \A p \in hist[1].search_written : path_to_index[p] = path_backup[p]

\* C2 witness: the apply changed slots of both tables and the revert has run
C2_Witness ==
    /\ Len(hist) = 2
    /\ hist[1].op = "hack" /\ hist[2].op = "unhack"
    /\ hist[1].alt = hist[2].alt
    /\ \E p \in hist[1].arc_written : hist[2].arc_before[p] # filepath_backup[p]
    /\ \E p \in hist[1].search_written : hist[2].search_before[p] # path_backup[p]

\* C3: a second apply of the same alt right after the first leaves both tables
\* as the first apply left them.
C3_ApplyIdempotent ==
    ( /\ Len(hist) = 2
      /\ hist[1].op = "hack" /\ hist[2].op = "hack"
      /\ hist[1].alt = hist[2].alt )
    => /\ file_hash_to_path_index = hist[2].arc_before
       /\ path_to_index = hist[2].search_before

\* C3 witness: an alt was applied twice in a row and its patches are in the tables
C3_Witness ==
    /\ Len(hist) = 2
    /\ hist[1].op = "hack" /\ hist[2].op = "hack"
    /\ hist[1].alt = hist[2].alt
    /\ hist[2].arc_written # { }
    /\ ArcPatched # { }

\* C4: apply and revert alternate strictly: no apply runs while another apply
\* is unreverted and every revert is of the alt applied last.
C4_StrictAlternation == strict

\* C4 witness: one advance_alt reverted an alt and applied a different one
C4_Witness ==
    /\ call.op = "advance_alt"
    /\ live # None
    /\ \E a \in Reverted : a # None /\ a # live /\ BaseFiles(a) = BaseFiles(live)

\* C5: with alt A active, for every (base, variant) of A.alt_folders and every
\* file name directly under the variant folder whose variant file is
\* registered, the slot of join(base, name) holds the snapshot index of
\* join(variant, name), in the archive table and in the search table; every
\* other slot holds its own snapshot value, so the tables depend on A alone.
C5_NoDrift ==
    current_alt # None =>
      LET folders == current_alt[1].alt_folders
          Pairs == UNION { { << join_path(b, n), join_path(folders[b], n) >> :
                             n \in FileNamesUnder(folders[b]) } : b \in DOMAIN folders }
          InArc == { e \in Pairs : e[1] \in DOMAIN file_hash_to_path_index
                                   /\ e[2] \in DOMAIN filepath_backup }
          InSearch == { e \in Pairs : e[1] \in DOMAIN path_to_index
                                      /\ e[2] \in DOMAIN path_backup }
      IN /\ \A e \in InArc : file_hash_to_path_index[e[1]] = filepath_backup[e[2]]
         /\ \A e \in InSearch : path_to_index[e[1]] = path_backup[e[2]]
         /\ \A p \in DOMAIN file_hash_to_path_index :
               p \notin { e[1] : e \in InArc } =>
                  file_hash_to_path_index[p] = filepath_backup[p]
         /\ \A p \in DOMAIN path_to_index :
               p \notin { e[1] : e \in InSearch } =>
                  path_to_index[p] = path_backup[p]

\* C5 witness: an alt is active after another alt over the same base folder
\* was active, and it leaves a slot unpatched that the other one patched
C5_Witness ==
    /\ call.op = "advance_alt"
    /\ current_alt # None
    /\ ArcPatched # { }
    /\ \E a \in Reverted :
          /\ a # None /\ a # current_alt
          /\ \E b \in DOMAIN a[1].alt_folders :
                /\ b \in DOMAIN current_alt[1].alt_folders
                /\ FileNamesUnder(a[1].alt_folders[b])
                     \ FileNamesUnder(current_alt[1].alt_folders[b]) # { }

\* C6: from construction, with the list length n >= 1 fixed, the j-th ordinary
\* advance_alt call consumes slot (j - 1) mod n.
C6_RoundRobin ==
    ( calls >= 1 /\ calls < MaxCalls /\ selection # << >> )
    => current_index = ( calls - 1 ) % Len(selection)

\* C6 witness: call n + 1 has wrapped back to slot 0 of a list of n >= 2 slots
C6_Witness ==
    /\ Len(selection) >= 2
    /\ calls = Len(selection) + 1
    /\ call.op = "advance_alt"
    /\ current_index = 0

\* C7: the first ordinary advance_alt after on_load, with n >= 2 slots,
\* consumes slot 0.
C7_FirstAfterResetIsSlot0 ==
    ( calls = FirstAfterReset /\ Len(selection) >= 2 ) => current_index = 0

\* C8: advance_alt resolves Random whenever the list is empty or the incoming
\* stage is the results stage.
C8_ForcedRandom ==
    ( call.op = "advance_alt" /\ ( selection = << >> \/ call.incoming = RESULT_STAGE ) )
    => call.sel = Random

\* C8 witness: the results stage came in while the list held no Random slot
C8_Witness ==
    /\ call.op = "advance_alt"
    /\ call.incoming = RESULT_STAGE
    /\ selection # << >>
    /\ \A i \in 1 .. Len(selection) : selection[i] # Random
    /\ call.sel = Random

\* C9: after advance_alt consumed an Invalid slot no alt is current and both
\* tables equal their snapshots.
C9_InvalidIsNoAlt ==
    ( call.op = "advance_alt" /\ call.sel = Invalid )
    => /\ current_alt = None
       /\ file_hash_to_path_index = filepath_backup
       /\ path_to_index = path_backup

\* C9 witness: the call that consumed Invalid reverted an alt
C9_Witness ==
    /\ call.op = "advance_alt"
    /\ call.sel = Invalid
    /\ \E a \in Reverted : a # None /\ \E b \in DOMAIN a[1].alt_folders : a[1].alt_folders[b] # b
    /\ current_alt = None

\* C10: after advance_alt consumed Regular(name, 0) no alt is current.
C10_OrdinalZeroIsNoAlt ==
    ( call.op = "advance_alt" /\ call.sel.kind = "Regular" /\ call.sel.alt = 0 )
    => current_alt = None

\* the number of alts of a stage (0 without a catalog entry)
AltCount(stage) == IF stage \in DOMAIN Catalog THEN Len(Catalog[stage]) ELSE 0

\* ordinal j of the stage lacks the wifi-safe flag of the form
LacksWifiSafe(stage, j, is_battle) ==
    IF is_battle THEN ~Catalog[stage][j + 1].is_battle_ws
    ELSE ~Catalog[stage][j + 1].is_normal_ws

\* ordinal j of the stage has the ignore flag of the form
HasIgnore(stage, j, is_battle) ==
    IF is_battle THEN Catalog[stage][j + 1].is_battle_ignore
    ELSE Catalog[stage][j + 1].is_normal_ignore

\* the selection names nothing of the catalog
Unresolvable(sel, incoming) ==
    \/ sel.kind = "Regular" /\ sel.alt >= AltCount(sel.name)
    \/ sel.kind = "Random" /\ incoming \notin DOMAIN Catalog

\* C11: an advance_alt that consumed Regular(name, alt) with no catalog entry
\* for name or with alt past the stage's alt list, or that resolved Random for
\* a stage without catalog entry, leaves no alt current and both tables at
\* their snapshots, and the call returned.
C11_UnresolvableIsNoAlt ==
    ( call.op = "advance_alt" /\ Unresolvable(call.sel, call.incoming) )
    => /\ current_alt = None
       /\ file_hash_to_path_index = filepath_backup
       /\ path_to_index = path_backup
       /\ status = "running"

\* C11 witness: Regular(S, 3), one past the alts of S, was consumed while an
\* alt with patches was current
C11_Witness ==
    /\ call.op = "advance_alt"
    /\ call.sel = Regular("S", 3)
    /\ \E a \in Reverted : a # None /\ \E b \in DOMAIN a[1].alt_folders : a[1].alt_folders[b] # b
    /\ current_alt = None

\* C12: for a stage with an eligible ordinal >= 1, get_random_alt does not
\* return 0.
C12_RandomNeverZero ==
    ( /\ call.op = "get_random_alt"
      /\ \E j \in 1 .. AltCount(call.stage) - 1 :
            /\ ~( call.online /\ LacksWifiSafe(call.stage, j, call.is_battle) )
            /\ ~HasIgnore(call.stage, j, call.is_battle) )
    => call.result # Returns(0)

\* C13: a value get_random_alt returns is no ordinal that lacks the wifi-safe
\* flag of the form while is_online is set, and no ordinal that has the
\* ignore flag of the form.
C13_RandomRespectsConstraints ==
    ( /\ call.op = "get_random_alt"
      /\ call.result.outcome = "returns"
      /\ call.result.value < AltCount(call.stage) )
    => /\ ~( call.online /\ LacksWifiSafe(call.stage, call.result.value, call.is_battle) )
       /\ ~HasIgnore(call.stage, call.result.value, call.is_battle)

\* C13 witness: online, a draw for S (whose alt 2 is unsafe) returned alt 1
C13_Witness ==
    /\ call.op = "get_random_alt"
    /\ call.online
    /\ call.stage = "S"
    /\ call.result = Returns(1)

\* C14: set_stage_use_count(n) leaves the list at exactly n entries, all
\* Invalid, whatever it held, and changes neither current_alt nor a table.
C14_UseCountResets ==
    [][ \A count \in 0 .. MaxSel :
          set_stage_use_count(count)
          => /\ Len(selection') = count
             /\ \A i \in 1 .. count : selection'[i] = Invalid
             /\ UNCHANGED << current_alt, file_hash_to_path_index, path_to_index >> ]_vars

\* C14 witness: the count was set over a list that held a choice, to a list
\* that is not empty, while an alt was current
C14_Witness ==
    /\ call.op = "set_stage_use_count"
    /\ call.held
    /\ selection # << >>
    /\ current_alt # None

\* C15: set_stage_selection(i, s) with i past the list changes nothing of the
\* manager and returns; with i inside the list it writes s to slot i and
\* leaves the other slots, the cursor and current_alt as they were.
C15_SelectionOverwritesOneSlot ==
    [][ \A index \in 0 .. MaxSel, sel \in Selections :
          set_stage_selection(index, sel)
          => /\ status' = "running"
             /\ UNCHANGED << current_index, current_alt, is_online,
                             file_hash_to_path_index, path_to_index >>
             /\ IF index >= Len(selection) THEN UNCHANGED selection
                ELSE /\ Len(selection') = Len(selection)
                     /\ selection'[index + 1] = sel
                     /\ \A i \in 1 .. Len(selection) :
                           i # index + 1 => selection'[i] = selection[i] ]_vars

\* C15 witness: a call with the index past a list of two slots was ignored
C15_Witness ==
    /\ call.op = "set_stage_selection"
    /\ call.ignored
    /\ Len(selection) >= 2
    /\ HoldsChoice(selection)

\* the ordinals of the stage that the wifi-safe check of the form lets pass
Unskipped(stage, is_battle, online) ==
    { j \in 0 .. AltCount(stage) - 1 : ~( online /\ LacksWifiSafe(stage, j, is_battle) ) }

\* C16: get_next_alt returns 0 for a stage without catalog entry and when no
\* ordinal above the index passes the wifi-safe check, and otherwise the
\* smallest ordinal above the index that passes it.
C16_NextIsSmallestUnskipped ==
    call.op = "get_next_alt"
    => LET above == { j \in Unskipped(call.stage, call.is_battle, call.online) :
                        j > call.index }
       IN IF above = { } THEN call.result = Returns(0)
          ELSE /\ call.result.outcome = "returns"
               /\ call.result.value \in above
               /\ \A j \in above : call.result.value <= j

\* C16 witness: online, alt 1 of T is unsafe in the normal form and the call
\* from 0 passed over it to alt 2
C16_Witness ==
    /\ call.op = "get_next_alt"
    /\ call.online /\ ~call.is_battle
    /\ call.stage = "T" /\ call.index = 0
    /\ call.result = Returns(2)

\* C17: offline, get_prev_alt called with what get_next_alt returned for an
\* index i of the stage's alt list returns i.
C17_NextPrevSymmetry ==
    ( /\ call.op = "get_prev_alt"
      /\ call.prior # NoPrior
      /\ ~call.online
      /\ call.prior < AltCount(call.stage) )
    => call.result = Returns(call.prior)

\* C18: get_prev_alt from 0 on a stage with alts returns the largest ordinal
\* that passes the wifi-safe check of the form.
C18_PrevFromZeroWraps ==
    ( /\ call.op = "get_prev_alt"
      /\ call.index = 0
      /\ Unskipped(call.stage, call.is_battle, call.online) # { } )
    => /\ call.result.outcome = "returns"
       /\ call.result.value \in Unskipped(call.stage, call.is_battle, call.online)
       /\ \A j \in Unskipped(call.stage, call.is_battle, call.online) :
             j <= call.result.value

\* C19: get_next_alt and get_prev_alt return, and what they return is 0 or an
\* index of the stage's alt list.
C19_QueriesReturnUsable ==
    call.op \in { "get_next_alt", "get_prev_alt" }
    => /\ call.result.outcome = "returns"
       /\ call.result.value = 0 \/ call.result.value < AltCount(call.stage)

\* C20: while is_online is set, an ordinal >= 1 that get_next_alt or
\* get_prev_alt returns has the wifi-safe flag of the requested form.
C20_OnlineSkipsUnsafe ==
    ( /\ call.op \in { "get_next_alt", "get_prev_alt" }
      /\ call.online
      /\ call.result.outcome = "returns"
      /\ call.result.value >= 1 )
    => /\ call.result.value < AltCount(call.stage)
       /\ ~LacksWifiSafe(call.stage, call.result.value, call.is_battle)

\* C20 witness: online, get_prev_alt from one past the alts of S passed over
\* the unsafe alt 2 and returned alt 1
C20_Witness ==
    /\ call.op = "get_prev_alt"
    /\ call.online
    /\ call.stage = "S" /\ call.index = 3
    /\ call.result = Returns(1)

\* the vanilla path of a stage for the form of a UI path getter
VanillaUiPath(op, stage) ==
    IF op = "get_normal_ui_path" THEN vanilla_normal_ui_path(stage)
    ELSE IF op = "get_battle_ui_path" THEN vanilla_battle_ui_path(stage)
    ELSE vanilla_end_ui_path(stage)

\* the ui_paths slot a UI path getter reads
UiSlot(op) ==
    IF op = "get_normal_ui_path" THEN 2 ELSE IF op = "get_battle_ui_path" THEN 4 ELSE 3

\* C21: a UI path getter returns the stored ui_paths slot of its form (normal
\* 2, end 3, battle 4) when the ordinal is not 0 and indexes the alt list of a
\* catalogued stage, and the vanilla path of the stage and form otherwise.
C21_UiPathOrVanilla ==
    call.op \in { "get_normal_ui_path", "get_battle_ui_path", "get_end_ui_path" }
    => call.result = IF call.alt # 0 /\ call.alt < AltCount(call.stage)
                     THEN Catalog[call.stage][call.alt + 1].ui_paths[UiSlot(call.op)]
                     ELSE VanillaUiPath(call.op, call.stage)

\* C21 witness: the battle path of alt 2 of S is its stored slot 4, which is
\* not the vanilla path
C21_Witness ==
    /\ call.op = "get_battle_ui_path"
    /\ call.stage = "S" /\ call.alt = 2
    /\ call.result = Catalog["S"][3].ui_paths[4]
    /\ call.result # vanilla_battle_ui_path("S")

RECURSIVE Nesting(_)
\* the number of levels of a walk result
Nesting(entries) ==
    IF entries = << >> THEN 0
    ELSE LET rest == Nesting(Tail(entries))
             here == 1 + Nesting(Head(entries).children)
         IN IF here > rest THEN here ELSE rest

\* C22: walk_search_section yields the empty sequence for every depth <= 0,
\* and for depth d >= 1 the children of the folder with each subfolder walked
\* at depth d - 1, so nothing deeper than d levels.
C22_WalkDepthBounded ==
    call.op = "walk_search_section" /\ call.result # Diverges
    => LET found == call.result.value IN
       /\ call.depth <= 0 => found = << >>
       /\ call.depth >= 1 =>
            /\ Nesting(found) <= call.depth
            /\ \A k \in 1 .. Len(found) :
                 found[k].kind = "Folder" =>
                   found[k].children =
                     walk_search_section(section, section.path_list[found[k].index].path,
                                         call.depth - 1)

\* the path-list indices of the entries of a walk result
Indices(entries) == [ k \in 1 .. Len(entries) |-> entries[k].index ]

\* the sibling link of the path-list entry pi leads to no entry
EndsChain(search, pi) ==
    \/ search.path_list[pi].index = NO_INDEX
    \/ search.path_list_indices[search.path_list[pi].index] = NO_INDEX

\* C23: walking a folder hash the index does not hold returns the empty
\* sequence; walking a present folder returns its direct children in
\* sibling-chain order: the entry of the first-child pointer first, then the
\* entry each sibling link leads to, up to the sentinel.
C23_WalkFollowsChain ==
    call.op = "walk_search_section" /\ call.result # Diverges /\ call.depth # 0
    => LET found == call.result.value IN
       IF call.hash \notin DOMAIN section.folders THEN found = << >>
       ELSE LET first == section.folders[call.hash] IN
            IF first = NO_INDEX \/ section.path_list_indices[first] = NO_INDEX
            THEN found = << >>
            ELSE /\ found # << >>
                 /\ found[1].index = section.path_list_indices[first]
                 /\ \A k \in 1 .. Len(found) - 1 :
                      /\ ~EndsChain(section, found[k].index)
                      /\ found[k + 1].index =
                           section.path_list_indices[section.path_list[found[k].index].index]
                 /\ EndsChain(section, found[Len(found)].index)

\* C23 witness: over the reversed table the variant folder walks as y, w,
\* sub, x, and a folder that does not exist walks as nothing
C23_Witness ==
    /\ call.op = "walk_search_section" /\ call.hash = B1 /\ call.depth = 1
    /\ section = OrderSection(<< 12, 11, 10, 9, 8, 7, 6, 5, 4, 3, 2, 1, 0 >>)
    /\ call.result # Diverges
    /\ Indices(call.result.value) = << 7, 8, 9, 10 >>

\* the file names of the direct children of a folder, in chain order
ChildNames(search, folder) ==
    LET found == walk_search_section(search, folder, 1) IN
    [ k \in 1 .. Len(found) |-> search.path_list[found[k].index].file_name ]

\* the names of a sequence
Range(seq) == { seq[k] : k \in 1 .. Len(seq) }

\* matched children in base order first, variant-only children after them
OrderFixed(base_names, before_names, after_names) ==
    LET IsMatched(n) == n \in Range(before_names)
        IsBase(n) == n \in Range(base_names)
    IN /\ SelectSeq(after_names, IsBase) = SelectSeq(base_names, IsMatched)
       /\ \A i, j \in 1 .. Len(after_names) :
            i < j /\ after_names[j] \in Range(base_names)
            => after_names[i] \in Range(base_names)

\* C24: after file_order_fix(base, variant) the chain of the variant folder
\* holds the children it held before: every child whose name the base folder
\* has too, in the order of the base chain, and every variant-only child
\* after all of them.
C24_OrderFixCorrect ==
    call.op = "file_order_fix"
    => /\ ~call.hung
       /\ ~walk_hangs(section, call.dst, 1, 1)
       /\ Range(Indices(walk_search_section(section, call.dst, 1)))
            = Range(Indices(walk_search_section(call.before, call.dst, 1)))
       /\ OrderFixed(ChildNames(call.before, call.src),
                     ChildNames(call.before, call.dst),
                     ChildNames(section, call.dst))

\* C25: file_order_fix run again on the pair it has just been run on leaves
\* the first-child pointers and the sibling links as the first run left them.
C25_OrderFixIdempotent ==
    [][ \A pair \in OrderPairs :
          /\ call.op = "file_order_fix" /\ call.src = pair[1] /\ call.dst = pair[2]
          /\ order_fix(pair[1], pair[2])
          => section' = section /\ status' = "running" ]_vars

\* the threads inside a read guard and the threads inside a write guard
ReaderThreads == { t \in Threads : pc[t] \in { "reading", "read" } }
WriterThreads == { t \in Threads : pc[t] \in { "writing", "reverted", "written" } }

\* C26: queries run under the shared lock and mutators under the exclusive
\* lock: no two mutators overlap, no query runs while a mutator holds the
\* manager, and so every query sees the tables patched for the alt it sees as
\* current, never the state between the revert and the apply of change_alt.
C26_LockSerializes ==
    /\ ReaderThreads = lock.readers
    /\ WriterThreads = IF lock.writer = 0 THEN { } ELSE { lock.writer }
    /\ WriterThreads # { } => ReaderThreads = { }
    /\ call.op = "locked_query" => call.writers = { } /\ call.live = call.alt

\* C26 witness: thread 1 is between the revert and the apply of change_alt,
\* away from an applied alt, after thread 2 made a query
C26_Witness ==
    /\ pc[1] = "reverted" /\ lock.writer = 1
    /\ current_alt # None /\ live = None
    /\ pc[2] = "idle"
    /\ call.op = "locked_query" /\ call.thread = 2 /\ call.alt # None

\* C27: after an apply, a base file whose variant file is not registered in
\* the archive table keeps its snapshot value in the archive table while the
\* other files of the alt hold the index of their variant file; the same for
\* a variant file missing from the search table.
C27_UnregisteredVariantSkipped ==
    call.op = "advance_alt" /\ status = "running" /\ current_alt # None
    => \A e \in file_lookup(SearchSection, current_alt[1].alt_folders) :
         /\ IF e[2] \in DOMAIN file_hash_to_path_index
            THEN file_hash_to_path_index[e[1]] = filepath_backup[e[2]]
            ELSE file_hash_to_path_index[e[1]] = filepath_backup[e[1]]
         /\ IF e[2] \in DOMAIN path_to_index
            THEN path_to_index[e[1]] = path_backup[e[2]]
            ELSE path_to_index[e[1]] = path_backup[e[1]]

\* C27 witness: the variant S1 is applied: its file b is not in the archive
\* table and its file c not in the search table; the base slots of a are
\* patched in both tables
C27_Witness ==
    /\ call.op = "advance_alt" /\ status = "running"
    /\ current_alt = Some(Catalog["S"][2])
    /\ join_path(S1, "b") \notin DOMAIN file_hash_to_path_index
    /\ join_path(S1, "c") \notin DOMAIN path_to_index
    /\ file_hash_to_path_index[join_path(SN, "b")] = filepath_backup[join_path(SN, "b")]
    /\ file_hash_to_path_index[join_path(SN, "a")] = filepath_backup[join_path(S1, "a")]
    /\ file_hash_to_path_index[join_path(SN, "a")] # filepath_backup[join_path(SN, "a")]
    /\ path_to_index[join_path(SN, "c")] = path_backup[join_path(SN, "c")]
    /\ path_to_index[join_path(SN, "a")] # path_backup[join_path(SN, "a")]

\* C28: a base file of the alt that is absent from the archive table, the
\* search table or their snapshots is skipped by apply and by revert: neither
\* aborts, so a revert completes for every alt whose apply completed.
C28_CorruptionNeverFatal == status # "panicked"

\* a draw exists that the loop of the running get_random_alt call lets pass
SomeEligible ==
    \E alt \in 0 .. Len(RandomCatalog[call.stage]) - 1 :
       ~random_skips(is_online, call.stage, alt, call.is_battle)

\* C29: under fair draws the retry loop of get_random_alt returns and
\* advance_alt completes whenever some ordinal of the list is eligible; when
\* every ordinal is unsafe while online or ignored, the loop is never left.
C29_RetryLoopTerminatesIffEligible ==
    /\ ( InLoop /\ SomeEligible ) ~>
         ( call.op = "get_random_alt" /\ call.phase = "done" )
    /\ [][ InLoop /\ ~SomeEligible => InLoop' ]_vars

\* C29 witness: online, after a skipped draw on a list with an eligible
\* ordinal, the call has returned an ordinal other than 0 and advance_alt is done
C29_Witness ==
    /\ call.op = "get_random_alt" /\ call.phase = "done"
    /\ is_online /\ call.stage = "T" /\ call.skipped > 0 /\ call.alt # 0
    /\ current_alt = Some(Catalog["T"][call.alt + 1])

\* C29 witness of the other case: online on D, where every ordinal is
\* disqualified, the loop is still running after MaxSkips draws
C29_WitnessStuck ==
    /\ InLoop /\ ~SomeEligible /\ call.skipped = MaxSkips

\* C30: when advance_alt consumes Regular(name, alt), the alt that becomes
\* current is entry alt of the list of stage name, whether or not name is the
\* incoming stage: a mismatch is logged and changes nothing else.
C30_RegularUsesNamedStage ==
    call.op = "advance_alt" /\ call.sel.kind = "Regular" /\ status = "running"
    => current_alt = catalog_alt(call.sel.name, call.sel.alt)

\* C30 witness: Regular(S, 2) is consumed with T incoming, and the alt that
\* becomes current is entry 2 of S, which is not entry 2 of T
C30_Witness ==
    /\ call.op = "advance_alt" /\ status = "running"
    /\ call.sel = Regular("S", 2) /\ call.incoming = "T"
    /\ current_alt = Some(Catalog["S"][3])
    /\ current_alt # catalog_alt("T", 2)

\* a step of an advance_alt call forced to Random: the list is empty or the
\* results stage is incoming
ForcedStep ==
    /\ call'.op = "advance_alt"
    /\ selection = << >> \/ call'.incoming = RESULT_STAGE

\* C34: an advance_alt call forced to Random leaves current_index and the
\* selection list unchanged, so every ordinary advance_alt after it consumes
\* the slot it would have consumed before it.
C34_ForcedRandomKeepsCursor ==
    [][ ForcedStep =>
          /\ current_index' = current_index
          /\ selection' = selection
          /\ \A incoming \in Stages \ { RESULT_STAGE } :
                next_selection(selection', current_index', incoming)
                  = next_selection(selection, current_index, incoming) ]_vars

\* C34 witness: the results stage came in when the cursor stood on slot 0 of
\* a list of two, and the cursor still stands there
C34_Witness ==
    /\ call.op = "advance_alt"
    /\ call.incoming = RESULT_STAGE
    /\ Len(selection) = 2
    /\ current_index = 0
    /\ calls = 1

\* C35: the index an ordinary advance_alt reads the selection list with is
\* below the list's length, and the selection consumed is the entry there.
C35_CursorInRange ==
    ( call.op = "advance_alt" /\ selection # << >> /\ call.incoming # RESULT_STAGE )
    => /\ current_index >= 0
       /\ current_index < Len(selection)
       /\ call.sel = selection[current_index + 1]

\* C35 witness: an ordinary advance_alt read slot 0 of a list of one whose
\* length changed after earlier advance_alt calls
C35_Witness ==
    /\ call.op = "advance_alt"
    /\ call.incoming # RESULT_STAGE
    /\ Len(selection) = 1
    /\ current_index = 0
    /\ calls = Untracked
    /\ call.sel = selection[1]

\* C38: when advance_alt consumes Regular(name, alt) with alt >= 1 in the
\* catalog, that alt is current and its patches are the live ones afterwards,
\* whatever is_online and the alt's wifi-safe and ignore flags are.
C38_RegularNotFiltered ==
    ( /\ call.op = "advance_alt"
      /\ call.sel.kind = "Regular"
      /\ call.sel.alt >= 1
      /\ catalog_alt(call.sel.name, call.sel.alt) # None )
    => /\ status = "running"
       /\ current_alt = catalog_alt(call.sel.name, call.sel.alt)
       /\ live = current_alt
       /\ call.log # << >>
       /\ call.log[Len(call.log)] = << "apply", current_alt >>

\* C38 witness: online, Regular(S, 2) was consumed for the battle form; alt 2
\* of S is not wifi-safe and its patches are in both tables
C38_Witness ==
    /\ call.op = "advance_alt"
    /\ is_online
    /\ call.sel = Regular("S", 2)
    /\ ~Catalog["S"][3].is_battle_ws
    /\ current_alt = Some(Catalog["S"][3])
    /\ ArcPatched # { }
    /\ SearchPatched # { }

\* the path-list indices a depth-1 walk of a folder yields, in chain order
Chain(search, folder) == Indices(walk_search_section(search, folder, 1))

\* C36: file_order_fix only permutes the variant's chain: the call returns,
\* and the walk of the variant folder ends and yields each child it yielded
\* before exactly once and no other entry.
C36_OrderFixPermutes ==
    ( call.op = "file_order_fix" /\ ~walk_hangs(call.before, call.dst, 1, 1) )
    => /\ ~call.hung
       /\ ~walk_hangs(section, call.dst, 1, 1)
       /\ Len(Chain(section, call.dst)) = Len(Chain(call.before, call.dst))
       /\ Cardinality(Range(Chain(section, call.dst))) = Len(Chain(section, call.dst))
       /\ Range(Chain(section, call.dst)) = Range(Chain(call.before, call.dst))

\* the variant path of the call is missing or not a directory, or the base
\* folder has no children
NothingToFix ==
    \/ call.dst \notin DOMAIN call.before.path_to_index
    \/ ~call.before.path_list[
           call.before.path_list_indices[call.before.path_to_index[call.dst]]
         ].is_directory
    \/ /\ ~walk_hangs(call.before, call.src, 1, 1)
       /\ Chain(call.before, call.src) = << >>

\* C37: file_order_fix leaves the base folder's first-child pointer and the
\* sibling links of the base folder's children as they were, and leaves the
\* whole section as it was when there is nothing to fix.
C37_OrderFixKeepsBase ==
    call.op = "file_order_fix"
    => /\ call.src \in DOMAIN call.before.folders
          => /\ section.folders[call.src] = call.before.folders[call.src]
             /\ ~walk_hangs(call.before, call.src, 1, 1)
                => \A pi \in Range(Chain(call.before, call.src)) :
                      section.path_list[pi].index = call.before.path_list[pi].index
       /\ NothingToFix => section = call.before

(* The catalogue of variants *)

\* the catalogue, once collect_stage_alts has returned it
Catalogued == stage_alt_lookup # None
Lookup == stage_alt_lookup[1]

\* the stage folders of the layouts, the forms of a stage and the ordinals
\* a variant folder of the layouts can carry
StageFolders == { "A", "G", "N", "poke_stadium2" }
Forms == { "normal", "battle" }
Ordinals == 1 .. 3

FolderExists(path) == path \in DOMAIN section.folders
IsPrefix(p, q) == Len(p) <= Len(q) /\ SubSeq(q, 1, Len(p)) = p

\* the largest k such that <form>_s01 .. <form>_s<k> all exist under the stage
DenseCount(stage, form) ==
    LET dense == { k \in { 0 } \cup Ordinals :
                     \A j \in 1 .. k : FolderExists(FormPath(stage, variant_name(form, j))) }
    IN CHOOSE k \in dense : \A other \in dense : other <= k

\* every folder record of the catalogue
CatalogFolders ==
    { Lookup.folders[base][i] : << base, i >> \in
        { << b, n >> \in ( DOMAIN Lookup.folders ) \X ( 1 .. 8 ) : n <= Len(Lookup.folders[b]) } }

\* the path a variant folder's path replaces: <form>_sNN becomes <form>
BasePathOf(path, stage, form) == FormPath(stage, form) \o SubSeq(path, 4, Len(path))

\* the files of the search section below a folder
FilesBelow(folder) ==
    { section.path_list[pi].path : pi \in
        { q \in DOMAIN section.path_list :
            /\ ~section.path_list[q].is_directory
            /\ IsPrefix(folder, section.path_list[q].path) } }

available(form) == IF form = "normal" THEN Lookup.available_normal ELSE Lookup.available_battle
is_available(form, stage, what) ==
    IF form = "normal" THEN is_available_normal(Lookup, stage, what)
    ELSE is_available_battle(Lookup, stage, what)

RegisteredFor(stage) ==
    { f \in CatalogFolders :
        \/ IsPrefix(StagePath(stage), f.new_path)
        \/ IsPrefix(StagePath(stage), f.base_path)
        \/ f.base_path = get_eff_folder_from_stage(stage) }

NotCatalogued(stage) ==
    /\ RegisteredFor(stage) = { }
    /\ stage \notin DOMAIN Lookup.available_normal
    /\ stage \notin DOMAIN Lookup.available_battle

\* C32: in the catalogue collect_stage_alts returns, a stage folder without
\* a `normal` child has no alt folder and no available count, neither for
\* the normal nor for the battle form; every stage with a `normal` child has
\* its count; `common` has no alt folder and no count.
C32_StageWithoutNormalSkipped ==
    Catalogued =>
      /\ \A stage \in StageFolders :
            IF FolderExists(FormPath(stage, "normal"))
            THEN stage \in DOMAIN Lookup.available_normal
            ELSE NotCatalogued(stage)
      /\ NotCatalogued("common")

\* C32, the part that holds: `common`, which has a normal folder and a
\* variant of it, is never catalogued, and every stage with a `normal`
\* child is.
C32_CommonNeverCatalogued ==
    Catalogued =>
      /\ \A stage \in StageFolders :
            FolderExists(FormPath(stage, "normal")) => stage \in DOMAIN Lookup.available_normal
      /\ NotCatalogued("common")

(* The hooks of the loader *)

\* a step of init_loaded_dir that reaches the read of the slot
ReadsSlotOnLoad(index) ==
    /\ index < Len(dir_infos)
    /\ init_loaded_dir(index, FALSE)

\* a step of check_extension_common that reaches the read of the slot
ReadsSlotOnExtension(entry) ==
    /\ entry[2] = "eff"
    /\ check_extension_common(entry[1], entry[2])

\* the number of times an index occurs in a list
Occurrences(list, i) == Cardinality({ k \in DOMAIN list : list[k] = i })

CountOf(counts, i) == IF i \in DOMAIN counts THEN counts[i] ELSE 0

\* the file path indices of a catalogued folder's files, in its order
VariantIndices(alt) ==
    [ k \in 1 .. Len(alt.files) |->
        file_hash_to_path_index[StageAltFolder_new_path(alt, alt.files[k])] ]

C40_CursorIndexesSlots ==
    [][ /\ ( \/ \E index \in LoadIndices : ReadsSlotOnLoad(index)
             \/ \E entry \in ExtensionEntries : ReadsSlotOnExtension(entry) )
           => CURRENT_STAGE_INDEX \in 0 .. 2
        /\ ( \E x8 \in LoadPaths : prepare_for_load(x8) )
           => /\ CURRENT_STAGE_INDEX' \in 0 .. 2
              /\ CURRENT_STAGE_INDEX' = IF CURRENT_STAGE_INDEX = USIZE_MAX THEN 0
                                        ELSE ( CURRENT_STAGE_INDEX + 1 ) % 3 ]_vars

\* C40, the part that holds: prepare_for_load maps usize::MAX to 0, advances
\* any other cursor modulo 3, and reads the array at the new cursor.
C40_PrepareCycles ==
    [][ ( \E x8 \in LoadPaths : prepare_for_load(x8) )
           => /\ CURRENT_STAGE_INDEX' \in 0 .. 2
              /\ CURRENT_STAGE_INDEX' = IF CURRENT_STAGE_INDEX = USIZE_MAX THEN 0
                                        ELSE ( CURRENT_STAGE_INDEX + 1 ) % 3 ]_vars

(* The locks of the scripting callbacks *)

\* the threads inside a callback, and the lock statement such a thread is at
Busy == { t \in Threads : pc[t] # "idle" }
HoldsManager(t) == lock.writer = t \/ t \in lock.readers
AtStatement(t, statement) ==
    \E callback \in Callbacks, done \in 0 .. 2 :
       /\ pc[t] = At(callback, done)
       /\ done < Len(lock_statements(callback))
       /\ lock_statements(callback)[done + 1] = statement

\* the thread is not blocked: it is past its lock statements, or the lock
\* statement it is at is granted
CanStep(t) ==
    \E callback \in Callbacks, done \in 0 .. 3 :
       /\ pc[t] = At(callback, done)
       /\ \/ done >= Len(lock_statements(callback))
          \/ Granted(lock_statements(callback)[done + 1])

\* C39: in every interleaving of the eight callbacks on different threads,
\* no thread that holds the manager lock is at a lock statement of the panel
\* mutex (the panel mutex is always taken first), and whenever threads are
\* inside callbacks one of them can take its next step.
C39_NoDeadlock ==
    /\ \A t \in Threads : HoldsManager(t) => ~AtStatement(t, "lock_panel")
    /\ Busy # { } => \E t \in Busy : CanStep(t)

\* a getter holds the panel mutex and waits for the read lock while another
\* thread writes under the write lock
C39_Witness ==
    \E t \in Threads, u \in Threads :
       /\ pc[t] = At("get_next_alt", 1)
       /\ panel.holder = t
       /\ panel.keys # { }
       /\ t \notin lock.readers
       /\ lock.writer = u
       /\ u # t
       /\ ~CanStep(t)
       /\ CanStep(u)

====
